---- MODULE Spec2Model ----
(***************************************************************************)
(* Model of the AI workout application's analysis cache (services/aiCache), *)
(* the retry wrapper and the extraction orchestrator                        *)
(* (services/geminiService.ts).                                             *)
(*                                                                          *)
(* Strings are TLA+ strings handled character by character (Len, SubSeq,    *)
(* \o), so key concatenation, lower-casing and substring search are         *)
(* computed, not assumed.  Time is the wall clock in whole days.            *)
(***************************************************************************)
EXTENDS Integers, Sequences, FiniteSets, TLC

VARIABLES
    now,        \* wall clock (new Date()), in days
    blob,       \* localStorage item 'ai_workout_analysis_cache'
    obs,        \* the most recent call of the cache API and what it returned
    lastPut,    \* the most recent cacheAnalysis call
    genAI,      \* API_KEY of the build and the genAIInstance singleton
    retry,      \* the running retryWithBackoff call
    call,       \* the running analyzeVideoAndExtractExercises call
    session,    \* localStorage item 'ai_workout_currentUser': an email, or none
    stores,     \* localStorage items 'user_<email>', one for each email
    api,        \* the most recent apiService call and how it ended
    tab,        \* a second tab in the middle of its own cacheAnalysis
    workout,    \* the state of the InteractiveWorkout component
    analyzed,   \* the running handleVideoAnalyzed call
    batch       \* the running handleAnalyzeVideos call

vars == <<now, blob, obs, lastPut, genAI, retry, call, session, stores, api, tab,
          workout, analyzed, batch>>

(* Bounds of the model *)

MaxNow == 31                    \* the clock stops advancing here
ClockSteps == {30, 31}          \* days that pass in one clock step
MaxRetriesBound == 4            \* retry ceilings 0..MaxRetriesBound are tried

(* JavaScript strings *)

UpperChars == "ABCDEFGHIJKLMNOPQRSTUVWXYZ"
LowerChars == "abcdefghijklmnopqrstuvwxyz"

CharAt(s, i) == SubSeq(s, i, i)

\* String.prototype.toLowerCase on one character
LowerChar(c) ==
    IF \E i \in 1..26 : CharAt(UpperChars, i) = c
    THEN CharAt(LowerChars, CHOOSE i \in 1..26 : CharAt(UpperChars, i) = c)
    ELSE c

RECURSIVE toLowerCase(_)
toLowerCase(s) ==
    IF Len(s) = 0 THEN s
    ELSE LowerChar(CharAt(s, 1)) \o toLowerCase(SubSeq(s, 2, Len(s)))

\* String.prototype.includes
includes(s, p) ==
    \E i \in 1..(Len(s) - Len(p) + 1) : SubSeq(s, i, i + Len(p) - 1) = p

\* String.prototype.startsWith
startsWith(s, p) == Len(s) >= Len(p) /\ SubSeq(s, 1, Len(p)) = p

endsWith(s, p) ==
    Len(s) >= Len(p) /\ SubSeq(s, Len(s) - Len(p) + 1, Len(s)) = p

(* JavaScript values, as JSON.parse produces them *)

JNull == [t |-> "null", v |-> 0]
JNum(n) == [t |-> "number", v |-> n]
JStr(s) == [t |-> "string", v |-> s]
JBool(b) == [t |-> "boolean", v |-> b]
JArr(items) == [t |-> "array", v |-> items]
JObj(props) == [t |-> "object", v |-> props]   \* props: <<name, value>> pairs

\* Infinity, the value JSON.parse gives a numeral too large for a double;
\* the numerals of the model are not negative, which leaves -1 free for it
Infinity == 0 - 1

\* the value of `undefined`, and of a `null` return
Undefined == [t |-> "undefined", v |-> 0]
Null == JNull

\* JavaScript truthiness (ToBoolean)
Truthy(x) ==
    CASE x.t = "undefined" -> FALSE
      [] x.t = "null" -> FALSE
      [] x.t = "boolean" -> x.v
      [] x.t = "number" -> x.v # 0
      [] x.t = "string" -> Len(x.v) > 0
      [] OTHER -> TRUE

ExerciseItem(name, description, startTime, endTime) ==
    JObj(<< <<"name", JStr(name)>>, <<"description", JStr(description)>>,
            <<"startTime", JNum(startTime)>>, <<"endTime", JNum(endTime)>> >>)

SquatList == JArr(<<ExerciseItem("Squat", "Bend", 0, 5)>>)
EmptyList == JArr(<<>>)

(* services/aiCache *)

CACHE_EXPIRY_DAYS == 30

\* content hashes are opaque strings; some contain '_'
Hashes == {"ab", "ab_pro"}
Variants == {"pro", "flash"}
\* results a caller hands to cacheAnalysis: parsed JSON values
Results == {EmptyList, SquatList}

EmptyMap == [k \in {} |-> Null]

\* the storage item: absent (getItem gives null) or a serialized map
NoBlob == [present |-> FALSE, map |-> EmptyMap]
Stored(cache) == [present |-> TRUE, map |-> cache]

getCache(b) == IF b.present THEN b.map ELSE EmptyMap

\* a value after JSON.stringify and JSON.parse: Infinity becomes null, an
\* undefined element of an array becomes null, an undefined property is
\* left out
RECURSIVE Serialized(_)
Serialized(x) ==
    CASE x.t = "number" -> IF x.v = Infinity THEN JNull ELSE x
      [] x.t = "array" ->
            JArr([k \in 1..Len(x.v) |->
                    IF x.v[k].t = "undefined" THEN JNull ELSE Serialized(x.v[k])])
      [] x.t = "object" ->
            LET defined(prop) == prop[2].t # "undefined"
                props == SelectSeq(x.v, defined)
            IN  JObj([k \in 1..Len(props) |-> <<props[k][1], Serialized(props[k][2])>>])
      [] OTHER -> x

\* lines 20-23: the item holds JSON.stringify(cache)
saveCache(cache) ==
    Stored([k \in DOMAIN cache |-> [cache[k] EXCEPT !.analysisResult = Serialized(@)]])

MapDelete(cache, key) == [k \in (DOMAIN cache) \ {key} |-> cache[k]]
MapSet(cache, key, entry) ==
    [k \in (DOMAIN cache) \cup {key} |-> IF k = key THEN entry ELSE cache[k]]

\* variant: an entry exactly 30 days old already counts as expired
isExpired_AtBoundary(entry, clock) ==
    LET daysDiff == clock - entry.timestamp
    IN  daysDiff >= CACHE_EXPIRY_DAYS

isExpired(entry, clock) ==
    LET daysDiff == clock - entry.timestamp
    IN  daysDiff > CACHE_EXPIRY_DAYS

\* variant: the key leaves the model variant out
CacheKey_HashOnly(videoHash, modelUsed) == videoHash

CacheKey(videoHash, modelUsed) == videoHash \o "_" \o modelUsed

\* variant: the lookup builds its key in the other order than the write
getCachedAnalysis_KeyMismatch(b, videoHash, modelUsed, clock) ==
    LET cache == getCache(b)
        key == modelUsed \o "_" \o videoHash
    IN  IF key \notin DOMAIN cache
        THEN <<Null, b>>
        ELSE IF clock - cache[key].timestamp > CACHE_EXPIRY_DAYS
             THEN <<Null, saveCache(MapDelete(cache, key))>>
             ELSE <<cache[key].analysisResult, b>>

\* getCachedAnalysis: <<returned value, storage item afterwards>>
getCachedAnalysis(b, videoHash, modelUsed, clock) ==
    LET cache == getCache(b)
        key == CacheKey(videoHash, modelUsed)
    IN  IF key \notin DOMAIN cache
        THEN <<Null, b>>
        ELSE IF isExpired(cache[key], clock)
             THEN <<Null, saveCache(MapDelete(cache, key))>>
             ELSE <<cache[key].analysisResult, b>>

\* variant: an entry already stored under the key is not overwritten
cacheAnalysis_KeepExisting(b, videoHash, analysisResult, modelUsed, clock) ==
    LET cache == getCache(b)
        key == videoHash \o "_" \o modelUsed
        entry == [videoHash |-> videoHash,
                  analysisResult |-> analysisResult,
                  timestamp |-> clock,
                  modelUsed |-> modelUsed]
    IN  IF key \in DOMAIN cache THEN saveCache(cache)
        ELSE saveCache(MapSet(cache, key, entry))

\* cacheAnalysis: the storage item afterwards
cacheAnalysis(b, videoHash, analysisResult, modelUsed, clock) ==
    LET cache == getCache(b)
        key == CacheKey(videoHash, modelUsed)
        entry == [videoHash |-> videoHash,
                  analysisResult |-> analysisResult,
                  timestamp |-> clock,
                  modelUsed |-> modelUsed]
    IN  saveCache(MapSet(cache, key, entry))

ExpiredKeys(cache, clock) == {k \in DOMAIN cache : isExpired(cache[k], clock)}

\* variant: the cache is saved whether or not an entry was removed
clearExpiredCache_AlwaysSaves(b, clock) ==
    LET cache == getCache(b)
        expired == ExpiredKeys(cache, clock)
    IN  <<Cardinality(expired), saveCache([k \in (DOMAIN cache) \ expired |-> cache[k]])>>

\* clearExpiredCache: <<removedCount, storage item afterwards>>
clearExpiredCache(b, clock) ==
    LET cache == getCache(b)
        expired == ExpiredKeys(cache, clock)
        removedCount == Cardinality(expired)
        kept == [k \in (DOMAIN cache) \ expired |-> cache[k]]
    IN  IF removedCount > 0
        THEN <<removedCount, saveCache(kept)>>
        ELSE <<removedCount, b>>

clearAllCache(b) == NoBlob

(* State *)

NoObs == [op |-> "none", videoHash |-> "", modelUsed |-> "", ret |-> Undefined,
          at |-> 0, before |-> NoBlob]
NoPut == [valid |-> FALSE, videoHash |-> "", modelUsed |-> "",
          analysisResult |-> Undefined, at |-> 0]
Put(videoHash, analysisResult, modelUsed, clock) ==
    [valid |-> TRUE, videoHash |-> videoHash, modelUsed |-> modelUsed,
     analysisResult |-> analysisResult, at |-> clock]

(* JSON.parse, for the JSON the model answers with: arrays, objects, strings
   without escapes, non-negative integers with or without an exponent,
   null, true and false.  The text is cut into tokens, then the tokens are
   read with an explicit stack of the arrays and objects that are still
   open. *)

Digits == "0123456789"
IsDigit(c) == Len(c) = 1 /\ \E i \in 1..10 : CharAt(Digits, i) = c
DigitValue(c) == (CHOOSE i \in 1..10 : CharAt(Digits, i) = c) - 1
IsSpace(c) == c \in {" ", "\n", "\t", "\r"}

RECURSIVE DigitsEnd(_, _)
DigitsEnd(s, i) ==
    IF i <= Len(s) /\ IsDigit(CharAt(s, i)) THEN DigitsEnd(s, i + 1) ELSE i

RECURSIVE NumberValue(_, _)
NumberValue(s, acc) ==
    IF Len(s) = 0 THEN acc
    ELSE NumberValue(SubSeq(s, 2, Len(s)), 10 * acc + DigitValue(CharAt(s, 1)))

\* index of the closing quote of the string literal opened before i, or 0
RECURSIVE StringEnd(_, _)
StringEnd(s, i) ==
    IF i > Len(s) THEN 0
    ELSE IF CharAt(s, i) = "\"" THEN i
    ELSE StringEnd(s, i + 1)

Token(kind, val) == [k |-> kind, val |-> val]
BadToken == Token("bad", Undefined)

\* the scan of a text: the tokens so far, the index of the next character to
\* look at, and whether a "bad" token has ended the scan
ScanStart == [toks |-> <<>>, next |-> 1, bad |-> FALSE]
Scanned(scan, tok, next) == [toks |-> Append(scan.toks, tok), next |-> next, bad |-> FALSE]

\* the character at index i: skipped when it lies in a token already cut;
\* a numeral with an exponent above 308, the largest of a double, is Infinity
TokenStep(s, scan, i) ==
    IF scan.bad \/ i < scan.next THEN scan
    ELSE LET c == CharAt(s, i)
             close == StringEnd(s, i + 1)
             stop == DigitsEnd(s, i)
         IN  CASE IsSpace(c) -> [scan EXCEPT !.next = i + 1]
               [] c \in {"[", "]", "{", "}", ",", ":"} ->
                    Scanned(scan, Token(c, Undefined), i + 1)
               [] c = "\"" /\ close # 0 ->
                    Scanned(scan, Token("value", JStr(SubSeq(s, i + 1, close - 1))),
                            close + 1)
               [] IsDigit(c) /\ (c = "0" => stop = i + 1) ->
                    LET mantissa == NumberValue(SubSeq(s, i, stop - 1), 0)
                        hasExponent ==
                            /\ stop < Len(s)
                            /\ CharAt(s, stop) \in {"e", "E"}
                            /\ IsDigit(CharAt(s, stop + 1))
                        expStop == DigitsEnd(s, stop + 1)
                        exponent == NumberValue(SubSeq(s, stop + 1, expStop - 1), 0)
                    IN  IF ~hasExponent
                        THEN Scanned(scan, Token("value", JNum(mantissa)), stop)
                        ELSE Scanned(scan,
                                     Token("value",
                                           JNum(IF mantissa = 0 THEN 0
                                                ELSE IF exponent > 308
                                                THEN Infinity
                                                ELSE mantissa * (10 ^ exponent))),
                                     expStop)
               [] startsWith(SubSeq(s, i, Len(s)), "null") ->
                    Scanned(scan, Token("value", JNull), i + 4)
               [] startsWith(SubSeq(s, i, Len(s)), "true") ->
                    Scanned(scan, Token("value", JBool(TRUE)), i + 4)
               [] startsWith(SubSeq(s, i, Len(s)), "false") ->
                    Scanned(scan, Token("value", JBool(FALSE)), i + 5)
               [] OTHER -> [toks |-> Append(scan.toks, BadToken), next |-> i,
                            bad |-> TRUE]

\* the characters lo..hi scanned in order, by halves
RECURSIVE ScanRange(_, _, _, _)
ScanRange(s, lo, hi, scan) ==
    IF lo > hi THEN scan
    ELSE IF lo = hi THEN TokenStep(s, scan, lo)
    ELSE LET mid == (lo + hi) \div 2
             left == ScanRange(s, lo, mid, scan)
         IN  IF left.bad THEN left ELSE ScanRange(s, mid + 1, hi, left)

\* the tokens of a text; a "bad" token ends an invalid text
Tokens(s) == ScanRange(s, 1, Len(s), ScanStart).toks

\* an open array, object, or the text itself ("top"), and what it expects
Frame(kind, expect) ==
    [kind |-> kind, expect |-> expect, items |-> <<>>, name |-> ""]

Top(stack) == stack[Len(stack)]
Pop(stack) == SubSeq(stack, 1, Len(stack) - 1)
SetTop(stack, frame) == Append(Pop(stack), frame)

WantsValue(frame) == frame.expect \in {"value", "valueOrClose"}
WantsName(frame) == frame.expect \in {"name", "nameOrClose"}

\* a complete value goes to the innermost open frame
Deliver(stack, val) ==
    LET f == Top(stack)
    IN  IF f.kind = "array"
        THEN SetTop(stack, [f EXCEPT !.items = Append(@, val), !.expect = "commaOrClose"])
        ELSE IF f.kind = "object"
        THEN SetTop(stack, [f EXCEPT !.items = Append(@, <<f.name, val>>),
                                      !.expect = "commaOrClose"])
        ELSE SetTop(stack, [f EXCEPT !.items = <<val>>, !.expect = "end"])

ParseFail == [ok |-> FALSE, val |-> Undefined]
ParseOk(val) == [ok |-> TRUE, val |-> val]

\* one token read: the stack after it; the empty stack is the SyntaxError
ReadStep(stack, tok) ==
    LET f == Top(stack)
    IN  CASE tok.k = "value" /\ WantsValue(f) -> Deliver(stack, tok.val)
          [] tok.k = "value" /\ tok.val.t = "string" /\ f.kind = "object"
                 /\ WantsName(f) ->
               SetTop(stack, [f EXCEPT !.name = tok.val.v, !.expect = "colon"])
          [] tok.k = ":" /\ f.expect = "colon" ->
               SetTop(stack, [f EXCEPT !.expect = "value"])
          [] tok.k = "," /\ f.expect = "commaOrClose" ->
               SetTop(stack, [f EXCEPT !.expect =
                                  IF f.kind = "object" THEN "name" ELSE "value"])
          [] tok.k = "[" /\ WantsValue(f) ->
               Append(stack, Frame("array", "valueOrClose"))
          [] tok.k = "{" /\ WantsValue(f) ->
               Append(stack, Frame("object", "nameOrClose"))
          [] tok.k = "]" /\ f.kind = "array"
                 /\ f.expect \in {"valueOrClose", "commaOrClose"} ->
               Deliver(Pop(stack), JArr(f.items))
          [] tok.k = "}" /\ f.kind = "object"
                 /\ f.expect \in {"nameOrClose", "commaOrClose"} ->
               Deliver(Pop(stack), JObj(f.items))
          [] OTHER -> <<>>

\* the tokens lo..hi read in order, by halves
RECURSIVE ReadTokens(_, _, _, _)
ReadTokens(toks, lo, hi, stack) ==
    IF lo > hi THEN stack
    ELSE IF lo = hi THEN ReadStep(stack, toks[lo])
    ELSE LET mid == (lo + hi) \div 2
             left == ReadTokens(toks, lo, mid, stack)
         IN  IF left = <<>> THEN left ELSE ReadTokens(toks, mid + 1, hi, left)

\* JSON.parse(text): [ok, val]; not ok is the SyntaxError
JSONparse(text) ==
    LET toks == Tokens(text)
        stack == ReadTokens(toks, 1, Len(toks), <<Frame("top", "value")>>)
    IN  IF Len(stack) = 1 /\ Top(stack).expect = "end"
        THEN ParseOk(Top(stack).items[1])
        ELSE ParseFail

JSONparseErrorMessage == "Unexpected token in JSON"

(* services/geminiService.ts: the response of the model, cleaned and
   validated (lines 200-249) *)

RECURSIVE trimStart(_)
trimStart(s) ==
    IF Len(s) > 0 /\ IsSpace(CharAt(s, 1)) THEN trimStart(SubSeq(s, 2, Len(s)))
    ELSE s

RECURSIVE trimEnd(_)
trimEnd(s) ==
    IF Len(s) > 0 /\ IsSpace(CharAt(s, Len(s)))
    THEN trimEnd(SubSeq(s, 1, Len(s) - 1))
    ELSE s

\* String.prototype.trim
trim(s) == trimEnd(trimStart(s))

\* The backquote cannot be written in a TLA+ string: in every text of this
\* model '~' stands for it, so "~~~json" is the opening code fence.
BackquoteFence == "~~~"

\* variant: only the opening fence is removed
stripFences_OpeningOnly(text) ==
    LET open == BackquoteFence \o "json"
    IN  IF startsWith(text, open)
        THEN trimStart(SubSeq(text, Len(open) + 1, Len(text)))
        ELSE text

\* text.replace(/^~~~json\s*|~~~$/g, '')
stripFences(text) ==
    LET open == BackquoteFence \o "json"
        close == BackquoteFence
        head == IF startsWith(text, open)
                THEN trimStart(SubSeq(text, Len(open) + 1, Len(text)))
                ELSE text
        \* a leading match consumes its characters: the closing fence must
        \* lie in what is left
    IN  IF endsWith(head, close) THEN SubSeq(head, 1, Len(head) - Len(close))
        ELSE head

\* an own property name that is an array index ("0", "7", "12")
IsIndexKey(k) ==
    /\ Len(k) > 0
    /\ \A i \in 1..Len(k) : IsDigit(CharAt(k, i))
    /\ (Len(k) > 1 => CharAt(k, 1) # "0")

IndexValue(k) == NumberValue(k, 0)

\* the last value written for a property name, or undefined
GetProp(x, name) ==
    IF x.t = "object" /\ \E i \in 1..Len(x.v) : x.v[i][1] = name
    THEN x.v[CHOOSE i \in 1..Len(x.v) :
                /\ x.v[i][1] = name
                /\ \A j \in (i + 1)..Len(x.v) : x.v[j][1] # name][2]
    ELSE Undefined

RECURSIVE SortedIndexKeys(_)
SortedIndexKeys(keys) ==
    IF keys = {} THEN <<>>
    ELSE LET least == CHOOSE k \in keys :
                         \A o \in keys : IndexValue(k) <= IndexValue(o)
         IN  <<least>> \o SortedIndexKeys(keys \ {least})

RECURSIVE FirstSeen(_, _, _)
FirstSeen(props, i, seen) ==
    IF i > Len(props) THEN <<>>
    ELSE IF props[i][1] \in seen \/ IsIndexKey(props[i][1])
         THEN FirstSeen(props, i + 1, seen)
         ELSE <<props[i][1]>> \o FirstSeen(props, i + 1, seen \cup {props[i][1]})

\* Object.keys order: array indices ascending, then names by first insertion
ObjectKeys(x) ==
    SortedIndexKeys({x.v[i][1] : i \in {j \in 1..Len(x.v) : IsIndexKey(x.v[j][1])}})
        \o FirstSeen(x.v, 1, {})

\* Object.values(parsed)
ObjectValues(x) ==
    LET keys == ObjectKeys(x) IN [i \in 1..Len(keys) |-> GetProp(x, keys[i])]

\* variant: the last array among the values is taken
FindArray_Last(values) ==
    IF \E i \in 1..Len(values) : values[i].t = "array"
    THEN values[CHOOSE i \in 1..Len(values) :
                   /\ values[i].t = "array"
                   /\ \A j \in (i + 1)..Len(values) : values[j].t # "array"]
    ELSE Undefined

\* Object.values(parsed).find(value => Array.isArray(value))
FindArray(values) ==
    IF \E i \in 1..Len(values) : values[i].t = "array"
    THEN values[CHOOSE i \in 1..Len(values) :
                   /\ values[i].t = "array"
                   /\ \A j \in 1..(i - 1) : values[j].t # "array"]
    ELSE Undefined

\* typeof
TypeOf(x) ==
    CASE x.t \in {"array", "null"} -> "object"
      [] OTHER -> x.t

\* variant: only the name of an item is checked
ItemIsValid_NameOnly(item) ==
    /\ Truthy(item)
    /\ TypeOf(GetProp(item, "name")) = "string"

\* the callback of exercisesArray.every
ItemIsValid(item) ==
    /\ Truthy(item)
    /\ TypeOf(GetProp(item, "name")) = "string"
    /\ TypeOf(GetProp(item, "description")) = "string"
    /\ TypeOf(GetProp(item, "startTime")) = "number"
    /\ TypeOf(GetProp(item, "endTime")) = "number"

Returned(value, toCache) ==
    [kind |-> "return", value |-> value, toCache |-> toCache, message |-> ""]
Thrown(message) ==
    [kind |-> "throw", value |-> Undefined, toCache |-> FALSE, message |-> message]

\* lines 200-249: what the try block does with response.text
extractExercises(responseText) ==
    IF responseText.t # "string"
    THEN Thrown("Cannot read properties of undefined (reading 'trim')")
    ELSE
    LET text == trim(responseText.v)
        cleanedJsonString == trim(stripFences(text))
        parsed == JSONparse(cleanedJsonString)
        exercisesArray ==
            IF parsed.val.t = "array" THEN parsed.val
            ELSE IF parsed.val.t = "object"
                 THEN FindArray(ObjectValues(parsed.val))
                 ELSE Null
        isValid == \A i \in 1..Len(exercisesArray.v) : ItemIsValid(exercisesArray.v[i])
    IN  IF cleanedJsonString = "" THEN Returned(EmptyList, FALSE)
        ELSE IF ~parsed.ok
             THEN Thrown("The AI returned malformed JSON. Details: "
                             \o JSONparseErrorMessage)
        ELSE IF Truthy(exercisesArray) /\ isValid
             THEN Returned(exercisesArray, TRUE)
        ELSE Thrown("Parsed data is not a valid array of exercises.")

\* variant: a proxy failure is not recognised
rethrow_NoProxyCase(message) ==
    IF includes(message, "400 Bad Request") \/ includes(message, "blocked")
    THEN "The AI model could not process the video. This can happen with very large, long, or complex videos. Please try a shorter, simpler clip. Error details: "
             \o message
    ELSE "Failed to parse AI response from video. Raw response might be invalid. Error: "
             \o message

\* lines 251-259: the catch block
rethrow(message) ==
    IF \/ includes(message, "400 Bad Request")
       \/ includes(message, "blocked")
       \/ includes(message, "Proxying failed")
    THEN "The AI model could not process the video. This can happen with very large, long, or complex videos. Please try a shorter, simpler clip. Error details: "
             \o message
    ELSE "Failed to parse AI response from video. Raw response might be invalid. Error: "
             \o message

(* services/geminiService.ts: retryWithBackoff (lines 58-88).  The record
   `retry` is the frame of the running call: its parameters, its locals
   attempt and lastError, and what it has done so far (log: the outcome of
   every call of fn, sleeps: every delay slept). *)

DEFAULT_MAX_RETRIES == 3
DEFAULT_INITIAL_DELAY == 2000

NoError == [message |-> "", id |-> 0]
\* the Error object thrown by the id-th call of fn
ErrorOf(message, id) == [message |-> message, id |-> id]

RetryIdle ==
    [pc |-> "idle", maxRetries |-> 0, initialDelay |-> 0, attempt |-> 0,
     lastError |-> NoError, calls |-> 0, log |-> <<>>, sleeps |-> <<>>,
     result |-> Undefined, thrown |-> NoError]

\* variant: the delay grows linearly, 2 * attempt
Pow2_Linear(k) == 2 * k

RECURSIVE Pow2(_)
Pow2(k) == IF k = 0 THEN 1 ELSE 2 * Pow2(k - 1)

\* variant: the message is searched without lower-casing it
IsClientError_CaseSensitive(message) ==
    \/ includes(message, "400")
    \/ includes(message, "invalid file")
    \/ includes(message, "malformed")

\* line 73-74: the errors that are not retried
IsClientError(message) ==
    LET errorMsg == toLowerCase(message)
    IN  \/ includes(errorMsg, "400")
        \/ includes(errorMsg, "invalid file")
        \/ includes(errorMsg, "malformed")

\* entering the loop: attempt = 0 and the first call of fn
retryStart(maxRetries, initialDelay) ==
    [RetryIdle EXCEPT !.pc = "calling", !.maxRetries = maxRetries,
                      !.initialDelay = initialDelay, !.calls = 1]

\* variant: the result of fn is awaited but not returned, the loop goes on
retryOnReturn_NoReturn(r, value) ==
    LET logged == [r EXCEPT !.log = Append(@, [kind |-> "return", value |-> value,
                                               message |-> ""])]
    IN  IF r.attempt < r.maxRetries
        THEN [logged EXCEPT !.pc = "calling", !.attempt = @ + 1, !.calls = @ + 1]
        ELSE [logged EXCEPT !.pc = "threw", !.attempt = @ + 1,
                            !.thrown = ErrorOf("Max retries exceeded", 0)]

\* line 67: fn() resolved
retryOnReturn(r, value) ==
    [r EXCEPT !.pc = "returned", !.result = value,
              !.log = Append(@, [kind |-> "return", value |-> value, message |-> ""])]

\* variant: the loop runs while attempt < maxRetries
retryOnThrow_OneAttemptShort(r, message) ==
    LET error == ErrorOf(message, r.calls)
        logged == [r EXCEPT !.lastError = error,
                            !.log = Append(@, [kind |-> "throw", value |-> Undefined,
                                               message |-> message])]
    IN  IF \/ includes(toLowerCase(message), "400")
           \/ includes(toLowerCase(message), "invalid file")
           \/ includes(toLowerCase(message), "malformed")
        THEN [logged EXCEPT !.pc = "threw", !.thrown = error]
        ELSE IF r.attempt + 1 < r.maxRetries
             THEN [logged EXCEPT !.pc = "sleeping",
                                 !.sleeps = Append(@, r.initialDelay * (2 ^ r.attempt))]
             ELSE [logged EXCEPT !.pc = "threw", !.attempt = @ + 1,
                                 !.thrown = logged.lastError]

\* variant: lastError keeps the first error instead of the latest
retryOnThrow_FirstError(r, message) ==
    LET error == ErrorOf(message, r.calls)
        logged == [r EXCEPT !.lastError = IF @ = NoError THEN error ELSE @,
                            !.log = Append(@, [kind |-> "throw", value |-> Undefined,
                                               message |-> message])]
    IN  IF \/ includes(toLowerCase(message), "400")
           \/ includes(toLowerCase(message), "invalid file")
           \/ includes(toLowerCase(message), "malformed")
        THEN [logged EXCEPT !.pc = "threw", !.thrown = error]
        ELSE IF r.attempt < r.maxRetries
             THEN [logged EXCEPT !.pc = "sleeping",
                                 !.sleeps = Append(@, r.initialDelay * (2 ^ r.attempt))]
             ELSE [logged EXCEPT !.pc = "threw", !.attempt = @ + 1,
                                 !.thrown = logged.lastError]

\* variant: the loop runs once more, while attempt <= maxRetries + 1
retryOnThrow_OneAttemptMore(r, message) ==
    LET error == ErrorOf(message, r.calls)
        logged == [r EXCEPT !.lastError = error,
                            !.log = Append(@, [kind |-> "throw", value |-> Undefined,
                                               message |-> message])]
    IN  IF IsClientError(message)
        THEN [logged EXCEPT !.pc = "threw", !.thrown = error]
        ELSE IF r.attempt < r.maxRetries + 1
             THEN [logged EXCEPT !.pc = "sleeping",
                                 !.sleeps = Append(@, r.initialDelay * Pow2(r.attempt))]
             ELSE [logged EXCEPT !.pc = "threw", !.attempt = @ + 1,
                                 !.thrown = logged.lastError]

\* lines 68-87: fn() rejected with an Error carrying `message`
retryOnThrow(r, message) ==
    LET error == ErrorOf(message, r.calls)
        logged == [r EXCEPT !.lastError = error,
                            !.log = Append(@, [kind |-> "throw", value |-> Undefined,
                                               message |-> message])]
    IN  IF IsClientError(message)
        THEN [logged EXCEPT !.pc = "threw", !.thrown = error]
        ELSE IF r.attempt < r.maxRetries
             THEN [logged EXCEPT !.pc = "sleeping",
                                 !.sleeps = Append(@, r.initialDelay * Pow2(r.attempt))]
             ELSE [logged EXCEPT !.pc = "threw", !.attempt = @ + 1,
                                 !.thrown = logged.lastError]

\* line 82 resolves: attempt++ and, as attempt <= maxRetries, the next call
retryOnWake(r) ==
    [r EXCEPT !.pc = "calling", !.attempt = @ + 1, !.calls = @ + 1]

(* services/geminiService.ts: analyzeVideoAndExtractExercises (lines 90-260) *)

CallIdle ==
    [pc |-> "idle", videoHash |-> Undefined, useProModel |-> FALSE,
     fileType |-> "", status |-> "none", value |-> Undefined, error |-> "",
     fromCache |-> FALSE]

ModelUsed(useProModel) == IF useProModel THEN "pro" ELSE "flash"

\* variant: a cache hit hands back an empty list instead of the cached result
Succeeded_HitLosesResult(c, value, fromCache) ==
    [c EXCEPT !.pc = "done", !.status = "success",
              !.value = IF fromCache THEN EmptyList ELSE value,
              !.fromCache = fromCache]

Succeeded(c, value, fromCache) ==
    [c EXCEPT !.pc = "done", !.status = "success", !.value = value,
              !.fromCache = fromCache]
Failed(c, message) ==
    [c EXCEPT !.pc = "done", !.status = "failed", !.error = message]

(* Inputs *)

\* the optional videoHash argument
HashArgs == {Undefined, JStr("ab_pro")}
FileTypes == {"video/mp4", "image/png"}

\* what response.text can be
ResponseTexts ==
    { Undefined,
      JStr(""),
      JStr("[]"),
      JStr(" [{\"name\":\"Squat\",\"description\":\"Bend\",\"startTime\":0,\"endTime\":5}]\n"),
      JStr(BackquoteFence \o "json\n[{\"name\":\"Squat\",\"description\":\"Bend\",\"startTime\":0,\"endTime\":5}]\n" \o BackquoteFence),
      JStr("[{\"name\":\"Squat\",\"description\":7,\"startTime\":0,\"endTime\":5}]"),
      JStr("[{\"name\":\"Squat\"") }

\* messages of the errors generateContent rejects with
ModelErrors ==
    { "503 Service Unavailable", "Response was blocked", "400 Bad Request",
      "Invalid file" }

\* messages for the catch block: the proxy failure as well, and a block
\* reported with a capital letter
CatchErrors == ModelErrors \cup {"Proxying failed", "Request Blocked"}

\* what a generic fn resolves with, and the ceilings and delays tried
FnValues == {JStr("first"), JStr("second")}
RetryCeilings == 0..MaxRetriesBound
InitialDelays == {1000, DEFAULT_INITIAL_DELAY}

(* Responses for the shape checks: JSON payloads built from exercise items,
   each as plain text and inside a json code fence *)

MaxItems == 2

ValidItemText ==
    "{\"name\":\"Squat\",\"description\":\"Bend\",\"startTime\":0,\"endTime\":5}"
\* items failing one of the four checks of lines 228-233
InvalidItemTexts ==
    { "{\"description\":\"Bend\",\"startTime\":0,\"endTime\":5}",
      "{\"name\":\"Squat\",\"description\":7,\"startTime\":0,\"endTime\":5}",
      "{\"name\":\"Squat\",\"description\":\"Bend\",\"endTime\":5}",
      "{\"name\":\"Squat\",\"description\":\"Bend\",\"startTime\":0,\"endTime\":\"5\"}" }
ItemTexts == {ValidItemText} \cup InvalidItemTexts

\* the item lists: up to MaxItems items, at most one of them invalid
ItemSeqs ==
    { s \in UNION {[1..n -> ItemTexts] : n \in 0..MaxItems} :
          Cardinality({i \in DOMAIN s : s[i] \in InvalidItemTexts}) <= 1 }

RECURSIVE Join(_)
Join(s) ==
    IF Len(s) = 0 THEN ""
    ELSE IF Len(s) = 1 THEN s[1]
    ELSE s[1] \o "," \o Join(Tail(s))

ArrayText(s) == "[" \o Join(s) \o "]"

\* payloads without an array where line 216-225 looks for one, and objects
\* with more than one array
OtherPayloads ==
    { "7", "\"Squat\"", "null", "true", "{}", "{\"count\":2}",
      "{\"plan\":{\"exercises\":[]}}",
      "{\"a\":[],\"b\":" \o ArrayText(<<ValidItemText>>) \o "}",
      "{\"b\":" \o ArrayText(<<ValidItemText>>) \o ",\"1\":[]}" }

\* an array as the whole payload, and as a property of a top-level object
Wrappings(arrayText) ==
    { arrayText,
      "{\"exercises\":" \o arrayText \o "}",
      "{\"count\":2,\"exercises\":" \o arrayText \o "}" }

Payloads ==
    UNION {Wrappings(ArrayText(s)) : s \in ItemSeqs} \cup OtherPayloads

Fenced(payload) == BackquoteFence \o "json\n" \o payload \o "\n" \o BackquoteFence
FencedTight(payload) == BackquoteFence \o "json" \o payload \o BackquoteFence

ShapeTexts ==
    {JStr(p) : p \in Payloads}
        \cup {JStr(Fenced(p)) : p \in Payloads}
        \cup {JStr(FencedTight(p)) : p \in OtherPayloads}

\* responses with a numeral no double can hold
OverflowTexts ==
    { JStr("[{\"name\":\"Squat\",\"description\":\"Bend\",\"startTime\":1e999,\"endTime\":5}]"),
      JStr(ArrayText(<<ValidItemText>>)),
      JStr("[]") }

\* the analysis of every response text, computed once
Extracted ==
    [t \in ResponseTexts \cup ShapeTexts \cup OverflowTexts |-> extractExercises(t)]

(* services/apiService.ts: the session and the stored data of each user *)

NoSession == ""
Emails == {"a", "b"}

\* the item 'user_<email>': absent, or the exercises and plans of the user
NoAccount == [present |-> FALSE, exercises |-> <<>>, savedPlans |-> <<>>]
Account(exercises, savedPlans) ==
    [present |-> TRUE, exercises |-> exercises, savedPlans |-> savedPlans]

\* how a call ends: with a value, or with an Error; the session and the
\* stores it leaves, and the number of files it handed to videoStorage
Resolved(ret, se, st, videos) ==
    [ok |-> TRUE, error |-> "", ret |-> ret, session |-> se, stores |-> st,
     videos |-> videos]
Rejected(message, se, st) ==
    [ok |-> FALSE, error |-> message, ret |-> <<>>, session |-> se, stores |-> st,
     videos |-> 0]

\* lines 60-65: null without a session (isNull), else the stored data or
\* the data of a new account
getUserData(se, st) ==
    IF se = NoSession THEN [isNull |-> TRUE, exercises |-> <<>>, savedPlans |-> <<>>]
    ELSE [isNull |-> FALSE,
          exercises |-> IF st[se].present THEN st[se].exercises ELSE <<>>,
          savedPlans |-> IF st[se].present THEN st[se].savedPlans ELSE <<>>]

\* lines 67-71
saveUserData(se, st, exercises, savedPlans) ==
    IF se = NoSession
    THEN Rejected("No authenticated user. Cannot save data.", se, st)
    ELSE Resolved(<<>>, se, [st EXCEPT ![se] = Account(exercises, savedPlans)], 0)

\* lines 96-100: data?.exercises || []
getAllExercises(se, st) == getUserData(se, st).exercises

\* lines 102-108
saveAllExercises(se, st, exercises) ==
    LET data == getUserData(se, st)
    IN  IF data.isNull THEN Rejected("User not authenticated", se, st)
        ELSE saveUserData(se, st, exercises, data.savedPlans)

\* the exercises stored for the user of the session
library == getAllExercises(session, stores)

\* variant: an existing account is replaced by a new one
signup_Overwrites(email, se, st) ==
    Resolved(<<[email |-> email]>>, email,
             [st EXCEPT ![email] = Account(<<>>, <<>>)], 0)

\* lines 20-34
signup(email, se, st) ==
    IF st[email].present
    THEN Rejected("An account with this email already exists.", se, st)
    ELSE Resolved(<<[email |-> email]>>, email,
                  [st EXCEPT ![email] = Account(<<>>, <<>>)], 0)

\* lines 36-45
login(email, se, st) ==
    IF ~st[email].present
    THEN Rejected("No account found with this email.", se, st)
    ELSE Resolved(<<[email |-> email]>>, email, st, 0)

\* lines 47-50
logout(se, st) == Resolved(<<>>, NoSession, st, 0)

\* lines 77-86: stored tells whether videoStorage.saveVideo resolves
saveVideoFile(stored, se, st) ==
    IF se = NoSession THEN Rejected("User not authenticated", se, st)
    ELSE IF ~stored THEN Rejected("The quota has been exceeded.", se, st)
    ELSE Resolved(<<>>, se, st, 1)

\* variant: the exercise is removed from the store of every user, with or
\* without a session
deleteExercise_Unchecked(exerciseId, se, st) ==
    Resolved(<<>>, se,
             [e \in Emails |->
                 IF st[e].present
                 THEN [st[e] EXCEPT !.exercises =
                           SelectSeq(@, LAMBDA ex : ex.id # exerciseId)]
                 ELSE st[e]], 0)

\* lines 110-116
deleteExercise(exerciseId, se, st) ==
    LET data == getUserData(se, st)
    IN  IF data.isNull THEN Rejected("User not authenticated", se, st)
        ELSE saveUserData(se, st,
                          SelectSeq(data.exercises, LAMBDA ex : ex.id # exerciseId),
                          data.savedPlans)

\* lines 120-124: data?.savedPlans || []
getAllSavedPlanEntries(se, st) == getUserData(se, st).savedPlans

\* variant: the entry is always pushed
savePlanEntry_AlwaysPushes(entry, se, st) ==
    LET data == getUserData(se, st)
    IN  IF data.isNull THEN Rejected("User not authenticated", se, st)
        ELSE saveUserData(se, st, data.exercises, Append(data.savedPlans, entry))

\* lines 132-143: findIndex is the first index with the id of the entry
savePlanEntry(entry, se, st) ==
    LET data == getUserData(se, st)
        found == {i \in DOMAIN data.savedPlans : data.savedPlans[i].id = entry.id}
        existingIndex == IF found = {} THEN 0 - 1
                         ELSE CHOOSE i \in found : \A j \in found : i <= j
    IN  IF data.isNull THEN Rejected("User not authenticated", se, st)
        ELSE saveUserData(se, st, data.exercises,
                          IF existingIndex > 0 - 1
                          THEN [data.savedPlans EXCEPT ![existingIndex] = entry]
                          ELSE Append(data.savedPlans, entry))

\* lines 145-151
deleteSavedPlanEntry(planId, se, st) ==
    LET data == getUserData(se, st)
    IN  IF data.isNull THEN Rejected("User not authenticated", se, st)
        ELSE saveUserData(se, st, data.exercises,
                          SelectSeq(data.savedPlans, LAMBDA p : p.id # planId))

\* lines 211-247: the exercises and the plans of the backup replace the
\* stored ones, and each video of the backup goes to videoStorage
restoreUserData(dataToRestore, se, st) ==
    IF se = NoSession THEN Rejected("You must be logged in to restore data.", se, st)
    ELSE [saveUserData(se, st, dataToRestore.exercises, dataToRestore.savedPlans)
             EXCEPT !.videos = dataToRestore.videos]

\* the argument of an apiService call
NoArg == [email |-> "", exerciseId |-> <<>>, planId |-> "", exercises |-> <<>>,
          savedPlans |-> <<>>, videos |-> 0]

\* no apiService call yet
NoCall ==
    [op |-> "none", arg |-> NoArg, ok |-> TRUE, error |-> "", ret |-> <<>>,
     videos |-> 0]

\* the saved plans a user submits: two versions of each of three plans
PlanIds == {"p1", "p2", "p3"}
PlanInputs == {[id |-> i, name |-> n] : i \in PlanIds, n \in {"A", "B"}}

\* no second tab is writing; cache is the map the tab read
TabIdle == [pc |-> "idle", cache |-> EmptyMap, key |-> "", entry |-> Null]

(* App.tsx: the exercise library of the user and the batch of videos *)

MaxVideos == 2
MaxKeys == 3
MaxLibrary == 3

\* line 171: videoFile.name.replace(/[^a-zA-Z0-9]/g, '') || 'video'
videoFileNameForId(name) ==
    LET isAlphaNumeric(c) ==
            \/ \E i \in 1..26 : c \in {CharAt(LowerChars, i), CharAt(UpperChars, i)}
            \/ \E i \in 1..10 : c = CharAt(Digits, i)
        RECURSIVE kept(_)
        kept(str) ==
            IF str = "" THEN ""
            ELSE (IF isAlphaNumeric(CharAt(str, 1)) THEN CharAt(str, 1) ELSE "")
                     \o kept(SubSeq(str, 2, Len(str)))
    IN  IF kept(name) = "" THEN "video" ELSE kept(name)

\* lines 172-179: extractedData.map((data, index) => ...), index from 0; the
\* id is `ex-${videoFileNameForId}-${Date.now()}-${index}`
exercisesWithDetails(extractedData, videoFile, videoStorageKey, clock) ==
    [k \in 1..Len(extractedData.v) |->
        [id |-> <<"ex", videoFileNameForId(videoFile.name), clock, k - 1>>,
         name |-> GetProp(extractedData.v[k], "name"),
         description |-> GetProp(extractedData.v[k], "description"),
         videoStorageKey |-> videoStorageKey,
         startTime |-> GetProp(extractedData.v[k], "startTime"),
         endTime |-> GetProp(extractedData.v[k], "endTime")]]

\* variant: two exercises are the same when their names are
SameExercise_NameOnly(existingEx, newEx) ==
    existingEx.name = newEx.name

\* lines 104-108: the callback of currentExercises.some
SameExercise(existingEx, newEx) ==
    /\ existingEx.name = newEx.name
    /\ existingEx.videoStorageKey = newEx.videoStorageKey
    /\ existingEx.startTime = newEx.startTime
    /\ existingEx.endTime = newEx.endTime

\* lines 103-110: newlyExtractedExercises.filter(...)
uniqueNewExercises(newlyExtractedExercises, currentExercises) ==
    LET isNew(newEx) ==
            ~\E k \in 1..Len(currentExercises) : SameExercise(currentExercises[k], newEx)
    IN  SelectSeq(newlyExtractedExercises, isNew)

\* the frame of handleVideoAnalyzed
AnalyzedIdle ==
    [pc |-> "idle", newlyExtractedExercises |-> <<>>, currentExercises |-> <<>>,
     updatedExercises |-> <<>>, saved |-> FALSE, error |-> ""]

\* line 101: the call, up to its first await
VideoAnalyzedCall(newlyExtractedExercises) ==
    [AnalyzedIdle EXCEPT !.pc = "reading",
                         !.newlyExtractedExercises = newlyExtractedExercises]

\* the frame of handleAnalyzeVideos; keys counts the videos stored so far,
\* and user is the session in which the batch was submitted
BatchIdle ==
    [pc |-> "idle", videosToAnalyze |-> <<>>, useProModel |-> FALSE, i |-> 0,
     videoStorageKey |-> 0, allNewlyExtractedExercises |-> <<>>,
     filesProcessedSuccessfully |-> 0, filesFailed |-> 0, errorMessages |-> <<>>,
     error |-> "", events |-> <<>>, keys |-> 0, user |-> NoSession]

\* lines 162-166: the loop moves to the next video and calls saveVideoFile,
\* or ends; events is the history of the steps taken for each video
NextVideo(b) ==
    IF b.i < Len(b.videosToAnalyze)
    THEN [b EXCEPT !.pc = "saving", !.i = @ + 1,
                   !.events = Append(@, [video |-> b.i + 1, step |-> "save"])]
    ELSE [b EXCEPT !.pc = "looped"]

\* variant: after a failed video the loop is left
VideoFailed_LeavesLoop(b, err) ==
    [b EXCEPT !.pc = "looped",
              !.filesFailed = @ + 1,
              !.errorMessages = Append(@, "Failed " \o b.videosToAnalyze[b.i].name \o ": " \o
                    (IF err.isError THEN err.message ELSE "An unknown error occurred.")),
              !.events = Append(@, [video |-> b.i, step |-> "failed"])]

\* lines 183-187: the catch block of one video
VideoFailed(b, err) ==
    NextVideo([b EXCEPT
        !.filesFailed = @ + 1,
        !.errorMessages = Append(@, "Failed " \o b.videosToAnalyze[b.i].name \o ": " \o
            (IF err.isError THEN err.message ELSE "An unknown error occurred.")),
        !.events = Append(@, [video |-> b.i, step |-> "failed"])])

\* lines 170-182: the rest of the try block of one video
VideoSucceeded(b, extractedData, clock) ==
    NextVideo([b EXCEPT
        !.allNewlyExtractedExercises =
            @ \o exercisesWithDetails(extractedData, b.videosToAnalyze[b.i],
                                      b.videoStorageKey, clock),
        !.filesProcessedSuccessfully = @ + 1,
        !.events = Append(@, [video |-> b.i, step |-> "succeeded"])])

\* lines 196-206: the end of the batch; the error names the failures
Finished(b) ==
    LET RECURSIVE joined(_)
        joined(msgs) ==
            IF Len(msgs) = 0 THEN ""
            ELSE IF Len(msgs) = 1 THEN msgs[1]
            ELSE msgs[1] \o "; " \o joined(Tail(msgs))
    IN  [b EXCEPT
            !.pc = "done",
            !.error = IF b.filesFailed > 0
                      THEN "Processed " \o CharAt(Digits, b.filesProcessedSuccessfully + 1)
                               \o "; Failed " \o CharAt(Digits, b.filesFailed + 1)
                               \o ": " \o joined(b.errorMessages)
                      ELSE ""]

\* the files a user submits
VideoFiles ==
    { [name |-> "a.mp4", type |-> "video/mp4"],
      [name |-> "b.png", type |-> "image/png"] }

\* apiService.ts 80-82: what saveVideoFile throws without a session
NotAuthenticated == [isError |-> TRUE, message |-> "User not authenticated"]

\* what saveVideoFile rejects with: an Error of the transaction, or the
\* string of videoStorage.initDB
SaveErrors ==
    { [isError |-> TRUE, message |-> "The quota has been exceeded."],
      [isError |-> FALSE, message |-> "Error opening VideoStorage DB"] }

\* the responses and the failures of the model during a batch
BatchTexts ==
    { JStr("[]"),
      JStr(ArrayText(<<ValidItemText>>)),
      JStr(ArrayText(<<ValidItemText, ValidItemText>>)) }
BatchErrors == {"503 Service Unavailable", "400 Bad Request"}

\* exercises handed to handleVideoAnalyzed: one, one differing from it in
\* the id alone, and one differing in each of the four compared fields
ExerciseInputs ==
    { [id |-> <<"ex", "amp4", 0, t[1]>>, name |-> JStr(t[2]),
       description |-> JStr("Bend"), videoStorageKey |-> t[3],
       startTime |-> JNum(t[4]), endTime |-> JNum(t[5])] :
        t \in { <<0, "Squat", 1, 0, 5>>, <<1, "Squat", 1, 0, 5>>,
                <<0, "Lunge", 1, 0, 5>>, <<0, "Squat", 2, 0, 5>>,
                <<0, "Squat", 1, 1, 5>>, <<0, "Squat", 1, 0, 6>> } }
\* lists of one or two of them
ExerciseLists == [{1} -> ExerciseInputs] \cup [{1, 2} -> ExerciseInputs]

\* the arguments of the calls of the service: lists of one or two exercises
\* with different ids, the versions of one plan, and two backups
ApiExercises == {e \in ExerciseInputs : e.id[4] = 1 \/ e.name = JStr("Lunge")}
ApiLists ==
    {l \in ExerciseLists :
        /\ \A i \in DOMAIN l : l[i] \in ApiExercises
        /\ \A i, j \in DOMAIN l : i # j => l[i].id # l[j].id}
ApiPlans == {p \in PlanInputs : p.id = "p1"}
Backups ==
    {[exercises |-> <<>>, savedPlans |-> <<>>, videos |-> 0]} \cup
    {[exercises |-> <<e>>, savedPlans |-> <<p>>, videos |-> 1] :
        e \in {x \in ApiExercises : x.id[4] = 1}, p \in {x \in ApiPlans : x.name = "A"}}

(* components/InteractiveWorkout: the workout of one day of a plan *)

MaxExercises == 2

\* lines 15-19: the first run of digits of the text, 60 without one
parseRestTime(restString) ==
    LET at == {i \in 1..Len(restString) : IsDigit(CharAt(restString, i))}
    IN  IF restString = "" \/ at = {} THEN 60
        ELSE LET first == CHOOSE i \in at : \A j \in at : i <= j
             IN  NumberValue(SubSeq(restString, first,
                                    DigitsEnd(restString, first) - 1), 0)

\* line 181: the digits the text starts with, 1 without any
totalSets(sets) ==
    IF DigitsEnd(sets, 1) = 1 THEN 1
    ELSE NumberValue(SubSeq(sets, 1, DigitsEnd(sets, 1) - 1), 0)

\* lines 22-26: the state of the component; mounted while the session shows
WorkoutIdle ==
    [mounted |-> FALSE, day |-> <<>>, currentExerciseIndex |-> 0, currentSet |-> 1,
     isResting |-> FALSE, restTimeLeft |-> 0]

\* variant: the index moves on without a look at the number of exercises
handleNextExercise_Unbounded(w) ==
    [w EXCEPT !.isResting = FALSE,
              !.currentExerciseIndex = @ + 1,
              !.currentSet = 1]

\* lines 193-201: onFinish takes the component off the screen
handleNextExercise(w) ==
    IF w.currentExerciseIndex < Len(w.day) - 1
    THEN [w EXCEPT !.isResting = FALSE,
                   !.currentExerciseIndex = @ + 1,
                   !.currentSet = 1]
    ELSE [w EXCEPT !.isResting = FALSE, !.mounted = FALSE]

\* lines 180-191
handleCompleteSet(w) ==
    LET currentPlannedExercise == w.day[w.currentExerciseIndex + 1]
        restDuration == parseRestTime(currentPlannedExercise.rest)
    IN  IF w.currentSet < totalSets(currentPlannedExercise.sets)
        THEN [w EXCEPT !.currentSet = @ + 1,
                       !.restTimeLeft = restDuration,
                       !.isResting = TRUE]
        ELSE handleNextExercise(w)

\* lines 203-209
handlePrevExercise(w) ==
    IF w.currentExerciseIndex > 0
    THEN [w EXCEPT !.isResting = FALSE,
                   !.currentExerciseIndex = @ - 1,
                   !.currentSet = 1]
    ELSE [w EXCEPT !.isResting = FALSE]

\* lines 211-214
handleSkipRest(w) == [w EXCEPT !.isResting = FALSE, !.restTimeLeft = 0]

\* the planned exercises of a day: sets and rest are free text, "" when
\* the plan has none
PlannedInputs ==
    { [name |-> "Squat", sets |-> "3", rest |-> "2s"],
      [name |-> "Lunge", sets |-> "2 sets", rest |-> ""],
      [name |-> "Plank", sets |-> "AMRAP", rest |-> "1 min"],
      [name |-> "Row", sets |-> "2", rest |-> "0 sec"] }
Days == UNION {[1..n -> PlannedInputs] : n \in 1..MaxExercises}

(* Initial state *)

Init ==
    /\ now = 0
    /\ blob = NoBlob
    /\ obs = NoObs
    /\ lastPut = NoPut
    /\ genAI \in {[apiKey |-> k, instance |-> FALSE] : k \in BOOLEAN}
    /\ retry = RetryIdle
    /\ call = CallIdle
    /\ session = "a"
    /\ stores = [e \in Emails |-> IF e = "a" THEN Account(<<>>, <<>>) ELSE NoAccount]
    /\ api = NoCall
    /\ tab = TabIdle
    /\ workout = WorkoutIdle
    /\ analyzed = AnalyzedIdle
    /\ batch = BatchIdle

(* Actions *)

AdvanceClock(days) ==
    /\ now + days <= MaxNow
    /\ now' = now + days
    /\ UNCHANGED <<blob, obs, lastPut, genAI, retry, call>>
    /\ UNCHANGED <<session, stores, api, tab, workout, analyzed, batch>>

Observed(op, videoHash, modelUsed, ret) ==
    [op |-> op, videoHash |-> videoHash, modelUsed |-> modelUsed, ret |-> ret,
     at |-> now, before |-> blob]

\* a direct call of aiCache.getCachedAnalysis
GetCachedAnalysis(videoHash, modelUsed) ==
    LET r == getCachedAnalysis(blob, videoHash, modelUsed, now)
    IN  /\ blob' = r[2]
        /\ obs' = Observed("get", videoHash, modelUsed, r[1])
        /\ UNCHANGED <<now, lastPut, genAI, retry, call>>
        /\ UNCHANGED <<session, stores, api, tab, workout, analyzed, batch>>

\* a direct call of aiCache.cacheAnalysis
CacheAnalysis(videoHash, analysisResult, modelUsed) ==
    /\ blob' = cacheAnalysis(blob, videoHash, analysisResult, modelUsed, now)
    /\ obs' = Observed("put", videoHash, modelUsed, Undefined)
    /\ lastPut' = Put(videoHash, analysisResult, modelUsed, now)
    /\ UNCHANGED <<now, genAI, retry, call>>
    /\ UNCHANGED <<session, stores, api, tab, workout, analyzed, batch>>

ClearExpiredCache ==
    LET r == clearExpiredCache(blob, now)
    IN  /\ blob' = r[2]
        /\ obs' = Observed("sweep", "", "", JNum(r[1]))
        /\ UNCHANGED <<now, lastPut, genAI, retry, call>>
        /\ UNCHANGED <<session, stores, api, tab, workout, analyzed, batch>>

ClearAllCache ==
    /\ blob' = clearAllCache(blob)
    /\ obs' = Observed("clearAll", "", "", Undefined)
    /\ lastPut' = NoPut
    /\ UNCHANGED <<now, genAI, retry, call>>
    /\ UNCHANGED <<session, stores, api, tab, workout, analyzed, batch>>

\* a direct call of retryWithBackoff(fn, maxRetries, initialDelay)
RetryStart(maxRetries, initialDelay) ==
    /\ call.pc = "idle"
    /\ retry.pc \in {"idle", "returned", "threw"}
    /\ retry' = retryStart(maxRetries, initialDelay)
    /\ UNCHANGED <<now, blob, obs, lastPut, genAI, call>>
    /\ UNCHANGED <<session, stores, api, tab, workout, analyzed, batch>>

FnReturns(value) ==
    /\ call.pc = "idle"
    /\ retry.pc = "calling"
    /\ retry' = retryOnReturn(retry, value)
    /\ UNCHANGED <<now, blob, obs, lastPut, genAI, call>>
    /\ UNCHANGED <<session, stores, api, tab, workout, analyzed, batch>>

FnThrows(message) ==
    /\ call.pc = "idle"
    /\ retry.pc = "calling"
    /\ retry' = retryOnThrow(retry, message)
    /\ UNCHANGED <<now, blob, obs, lastPut, genAI, call>>
    /\ UNCHANGED <<session, stores, api, tab, workout, analyzed, batch>>

\* the setTimeout of line 82 fires
RetryWake ==
    /\ retry.pc = "sleeping"
    /\ retry' = retryOnWake(retry)
    /\ UNCHANGED <<now, blob, obs, lastPut, genAI, call>>
    /\ UNCHANGED <<session, stores, api, tab, workout, analyzed, batch>>

\* lines 94-111: the call, up to its first await
Analyze(fileType, useProModel, videoHash) ==
    LET modelUsed == ModelUsed(useProModel)
        started == [CallIdle EXCEPT !.pc = "reading", !.videoHash = videoHash,
                                    !.useProModel = useProModel,
                                    !.fileType = fileType]
        hit == IF Truthy(videoHash)
               THEN getCachedAnalysis(blob, videoHash.v, modelUsed, now)
               ELSE <<Null, blob>>
        cached == hit[1]
    IN  /\ call.pc \in {"idle", "done"}
        /\ retry.pc \in {"idle", "returned", "threw"}
        /\ blob' = hit[2]
        /\ obs' = IF Truthy(videoHash)
                  THEN Observed("get", videoHash.v, modelUsed, cached)
                  ELSE obs
        /\ retry' = RetryIdle
        /\ IF Truthy(cached)
           THEN /\ call' = Succeeded(started, cached, TRUE)
                /\ UNCHANGED genAI
           ELSE IF ~genAI.instance /\ ~genAI.apiKey
           THEN /\ call' = Failed(started,
                    "API_KEY for Gemini is not configured. Cannot initialize AI service.")
                /\ UNCHANGED genAI
           ELSE /\ genAI' = [genAI EXCEPT !.instance = TRUE]
                /\ call' = IF startsWith(fileType, "video/")
                           THEN started
                           ELSE Failed(started,
                                    "Invalid file type. Please upload a video file.")
        /\ UNCHANGED <<now, lastPut>>

\* a call of analyzeVideoAndExtractExercises from outside the application
AnalyzeStart(fileType, useProModel, videoHash) ==
    /\ Analyze(fileType, useProModel, videoHash)
    /\ UNCHANGED <<session, stores, api, tab, workout, analyzed, batch>>

\* line 111: fileToGenerativePart resolves and retryWithBackoff is entered
FileRead ==
    /\ call.pc = "reading"
    /\ call' = [call EXCEPT !.pc = "analyzing"]
    /\ retry' = retryStart(DEFAULT_MAX_RETRIES, DEFAULT_INITIAL_DELAY)
    /\ UNCHANGED <<now, blob, obs, lastPut, genAI>>
    /\ UNCHANGED <<session, stores, api, tab, workout, analyzed, batch>>

\* lines 39-42: the FileReader fails
FileReadFails ==
    /\ call.pc = "reading"
    /\ call' = Failed(call, "Could not process file for analysis.")
    /\ UNCHANGED <<now, blob, obs, lastPut, genAI, retry>>
    /\ UNCHANGED <<session, stores, api, tab, workout, analyzed, batch>>

\* variant: after a response that fails parsing or validation the model is
\* called once more
ModelReturns_ShapeErrorCallsAgain(responseText) ==
    LET modelUsed == ModelUsed(call.useProModel)
        outcome == Extracted[responseText]
        write == outcome.toCache /\ Truthy(call.videoHash)
        logged == [retry EXCEPT !.log = Append(@, [kind |-> "return",
                                                   value |-> responseText,
                                                   message |-> ""])]
    IN  /\ call.pc = "analyzing"
        /\ retry.pc = "calling"
        /\ IF outcome.kind = "throw"
           THEN /\ retry' = [logged EXCEPT !.calls = @ + 1]
                /\ UNCHANGED <<call, blob, obs, lastPut>>
           ELSE /\ retry' = [logged EXCEPT !.pc = "returned", !.result = responseText]
                /\ call' = Succeeded(call, outcome.value, FALSE)
                /\ IF write
                   THEN /\ blob' = cacheAnalysis(blob, call.videoHash.v, outcome.value,
                                                 modelUsed, now)
                        /\ obs' = Observed("put", call.videoHash.v, modelUsed, Undefined)
                        /\ lastPut' = Put(call.videoHash.v, outcome.value, modelUsed, now)
                   ELSE UNCHANGED <<blob, obs, lastPut>>
        /\ UNCHANGED <<now, genAI>>
        /\ UNCHANGED <<session, stores, api, tab, workout, analyzed, batch>>

\* variant: the result is cached without the test of videoHash, a missing
\* hash giving the key "undefined_<variant>"
ModelReturns_AlwaysCaches(responseText) ==
    LET modelUsed == ModelUsed(call.useProModel)
        outcome == Extracted[responseText]
        write == outcome.kind = "return" /\ outcome.toCache
        hash == IF Truthy(call.videoHash) THEN call.videoHash.v ELSE "undefined"
    IN  /\ call.pc = "analyzing"
        /\ retry.pc = "calling"
        /\ retry' = retryOnReturn(retry, responseText)
        /\ call' = IF outcome.kind = "return"
                   THEN Succeeded(call, outcome.value, FALSE)
                   ELSE Failed(call, rethrow(outcome.message))
        /\ IF write
           THEN /\ blob' = cacheAnalysis(blob, hash, outcome.value, modelUsed, now)
                /\ obs' = Observed("put", hash, modelUsed, Undefined)
                /\ lastPut' = Put(hash, outcome.value, modelUsed, now)
           ELSE UNCHANGED <<blob, obs, lastPut>>
        /\ UNCHANGED <<now, genAI>>
        /\ UNCHANGED <<session, stores, api, tab, workout, analyzed, batch>>

\* lines 198-249: generateContent resolves; the rest of the try block runs
ModelReturns(responseText) ==
    LET modelUsed == ModelUsed(call.useProModel)
        outcome == Extracted[responseText]
        write == outcome.kind = "return" /\ outcome.toCache /\ Truthy(call.videoHash)
    IN  /\ call.pc = "analyzing"
        /\ retry.pc = "calling"
        /\ retry' = retryOnReturn(retry, responseText)
        /\ call' = IF outcome.kind = "return"
                   THEN Succeeded(call, outcome.value, FALSE)
                   ELSE Failed(call, rethrow(outcome.message))
        /\ IF write
           THEN /\ blob' = cacheAnalysis(blob, call.videoHash.v, outcome.value,
                                         modelUsed, now)
                /\ obs' = Observed("put", call.videoHash.v, modelUsed, Undefined)
                /\ lastPut' = Put(call.videoHash.v, outcome.value, modelUsed, now)
           ELSE UNCHANGED <<blob, obs, lastPut>>
        /\ UNCHANGED <<now, genAI>>
        /\ UNCHANGED <<session, stores, api, tab, workout, analyzed, batch>>

\* variant: when the call fails for good, an empty result is cached
ModelFails_CachesEmpty(message) ==
    /\ call.pc = "analyzing"
    /\ retry.pc = "calling"
    /\ retry' = retryOnThrow(retry, message)
    /\ call' = IF retry'.pc = "threw"
               THEN Failed(call, rethrow(retry'.thrown.message))
               ELSE call
    /\ blob' = IF retry'.pc = "threw" /\ Truthy(call.videoHash)
               THEN cacheAnalysis(blob, call.videoHash.v, EmptyList,
                                  ModelUsed(call.useProModel), now)
               ELSE blob
    /\ UNCHANGED <<now, obs, lastPut, genAI>>
    /\ UNCHANGED <<session, stores, api, tab, workout, analyzed, batch>>

\* lines 68-87 and 251-259: generateContent rejects
ModelFails(message) ==
    /\ call.pc = "analyzing"
    /\ retry.pc = "calling"
    /\ retry' = retryOnThrow(retry, message)
    /\ call' = IF retry'.pc = "threw"
               THEN Failed(call, rethrow(retry'.thrown.message))
               ELSE call
    /\ UNCHANGED <<now, blob, obs, lastPut, genAI>>
    /\ UNCHANGED <<session, stores, api, tab, workout, analyzed, batch>>

(* services/aiCache in a second tab that shares the storage *)

\* part_004 77-85: the tab enters cacheAnalysis, reads the cache and makes
\* its entry
TabReads(videoHash, analysisResult, modelUsed) ==
    /\ tab.pc \in {"idle", "wrote"}
    /\ tab' = [pc |-> "read",
               cache |-> getCache(blob),
               key |-> CacheKey(videoHash, modelUsed),
               entry |-> [videoHash |-> videoHash, analysisResult |-> analysisResult,
                          timestamp |-> now, modelUsed |-> modelUsed]]
    /\ UNCHANGED <<now, blob, obs, lastPut, genAI, retry, call>>
    /\ UNCHANGED <<session, stores, api, workout, analyzed, batch>>

\* variant: the tab reads the cache again when it writes
TabWrites_ReadsAgain ==
    /\ tab.pc = "read"
    /\ blob' = saveCache(MapSet(getCache(blob), tab.key, tab.entry))
    /\ tab' = [tab EXCEPT !.pc = "wrote"]
    /\ UNCHANGED <<now, obs, lastPut, genAI, retry, call>>
    /\ UNCHANGED <<session, stores, api, workout, analyzed, batch>>

\* part_004 86-87: the tab stores the map it read, with its entry in it
TabWrites ==
    /\ tab.pc = "read"
    /\ blob' = saveCache(MapSet(tab.cache, tab.key, tab.entry))
    /\ tab' = [tab EXCEPT !.pc = "wrote"]
    /\ UNCHANGED <<now, obs, lastPut, genAI, retry, call>>
    /\ UNCHANGED <<session, stores, api, workout, analyzed, batch>>

(* components/InteractiveWorkout: the handlers and the effect of the timer *)

\* App.tsx 300-303 and 316-323: the component is mounted with a day
HandleStartWorkout(day) ==
    /\ ~workout.mounted
    /\ workout' = [WorkoutIdle EXCEPT !.mounted = TRUE, !.day = day]
    /\ UNCHANGED <<now, blob, obs, lastPut, genAI, retry, call, session, stores, api, tab,
                 analyzed, batch>>

\* line 290: the button is rendered while the user is not resting
CompleteSet ==
    /\ workout.mounted
    /\ ~workout.isResting
    /\ workout' = handleCompleteSet(workout)
    /\ UNCHANGED <<now, blob, obs, lastPut, genAI, retry, call, session, stores, api, tab,
                 analyzed, batch>>

\* line 311
NextExercise ==
    /\ workout.mounted
    /\ ~workout.isResting
    /\ workout' = handleNextExercise(workout)
    /\ UNCHANGED <<now, blob, obs, lastPut, genAI, retry, call, session, stores, api, tab,
                 analyzed, batch>>

\* lines 298-299: the button is disabled at the first exercise
PrevExercise ==
    /\ workout.mounted
    /\ ~workout.isResting
    /\ workout.currentExerciseIndex # 0
    /\ workout' = handlePrevExercise(workout)
    /\ UNCHANGED <<now, blob, obs, lastPut, genAI, retry, call, session, stores, api, tab,
                 analyzed, batch>>

\* line 305 and App.tsx 305-309: Finish Workout
FinishWorkout ==
    /\ workout.mounted
    /\ ~workout.isResting
    /\ workout' = [workout EXCEPT !.mounted = FALSE]
    /\ UNCHANGED <<now, blob, obs, lastPut, genAI, retry, call, session, stores, api, tab,
                 analyzed, batch>>

\* line 224: the rest screen shows this button alone
SkipRest ==
    /\ workout.mounted
    /\ workout.isResting
    /\ workout' = handleSkipRest(workout)
    /\ UNCHANGED <<now, blob, obs, lastPut, genAI, retry, call, session, stores, api, tab,
                 analyzed, batch>>

\* lines 123-126: the timeout of one second fires
RestTick ==
    /\ workout.mounted
    /\ workout.isResting
    /\ workout.restTimeLeft > 0
    /\ workout' = [workout EXCEPT !.restTimeLeft = @ - 1]
    /\ UNCHANGED <<now, blob, obs, lastPut, genAI, retry, call, session, stores, api, tab,
                 analyzed, batch>>

\* lines 127-129: the effect ends the rest at 0
RestEnds ==
    /\ workout.mounted
    /\ workout.isResting
    /\ workout.restTimeLeft = 0
    /\ workout' = [workout EXCEPT !.isResting = FALSE]
    /\ UNCHANGED <<now, blob, obs, lastPut, genAI, retry, call, session, stores, api, tab,
                 analyzed, batch>>

(* services/apiService.ts: one action per exported operation *)

\* the call as it settled
Outcome(op, arg, result) ==
    [op |-> op, arg |-> arg, ok |-> result.ok, error |-> result.error,
     ret |-> result.ret, videos |-> result.videos]

\* lines 20-34
Signup(email) ==
    LET result == signup(email, session, stores)
    IN  /\ session' = result.session
        /\ stores' = result.stores
        /\ api' = Outcome("signup", [NoArg EXCEPT !.email = email], result)
        /\ UNCHANGED <<now, blob, obs, lastPut, genAI, retry, call, tab, workout, analyzed, batch>>

\* lines 36-45
Login(email) ==
    LET result == login(email, session, stores)
    IN  /\ session' = result.session
        /\ stores' = result.stores
        /\ api' = Outcome("login", [NoArg EXCEPT !.email = email], result)
        /\ UNCHANGED <<now, blob, obs, lastPut, genAI, retry, call, tab, workout, analyzed, batch>>

\* lines 47-50
Logout ==
    LET result == logout(session, stores)
    IN  /\ session' = result.session
        /\ stores' = result.stores
        /\ api' = Outcome("logout", NoArg, result)
        /\ UNCHANGED <<now, blob, obs, lastPut, genAI, retry, call, tab, workout, analyzed, batch>>

\* lines 77-86
SaveVideoFile(stored) ==
    LET result == saveVideoFile(stored, session, stores)
    IN  /\ session' = result.session
        /\ stores' = result.stores
        /\ api' = Outcome("saveVideoFile", NoArg, result)
        /\ UNCHANGED <<now, blob, obs, lastPut, genAI, retry, call, tab, workout, analyzed, batch>>

\* lines 96-100
GetAllExercises ==
    LET result == Resolved(getAllExercises(session, stores), session, stores, 0)
    IN  /\ session' = result.session
        /\ stores' = result.stores
        /\ api' = Outcome("getAllExercises", NoArg, result)
        /\ UNCHANGED <<now, blob, obs, lastPut, genAI, retry, call, tab, workout, analyzed, batch>>

\* lines 102-108
SaveAllExercises(exercises) ==
    LET result == saveAllExercises(session, stores, exercises)
    IN  /\ session' = result.session
        /\ stores' = result.stores
        /\ api' = Outcome("saveAllExercises", [NoArg EXCEPT !.exercises = exercises], result)
        /\ UNCHANGED <<now, blob, obs, lastPut, genAI, retry, call, tab, workout, analyzed, batch>>

\* lines 110-116
DeleteExercise(exerciseId) ==
    LET result == deleteExercise(exerciseId, session, stores)
    IN  /\ session' = result.session
        /\ stores' = result.stores
        /\ api' = Outcome("deleteExercise", [NoArg EXCEPT !.exerciseId = exerciseId], result)
        /\ UNCHANGED <<now, blob, obs, lastPut, genAI, retry, call, tab, workout, analyzed, batch>>

\* lines 120-124
GetAllSavedPlanEntries ==
    LET result == Resolved(getAllSavedPlanEntries(session, stores), session, stores, 0)
    IN  /\ session' = result.session
        /\ stores' = result.stores
        /\ api' = Outcome("getAllSavedPlanEntries", NoArg, result)
        /\ UNCHANGED <<now, blob, obs, lastPut, genAI, retry, call, tab, workout, analyzed, batch>>

\* lines 132-143
SavePlanEntry(entry) ==
    LET result == savePlanEntry(entry, session, stores)
    IN  /\ session' = result.session
        /\ stores' = result.stores
        /\ api' = Outcome("savePlanEntry", [NoArg EXCEPT !.planId = entry.id, !.savedPlans = <<entry>>], result)
        /\ UNCHANGED <<now, blob, obs, lastPut, genAI, retry, call, tab, workout, analyzed, batch>>

\* lines 145-151
DeleteSavedPlanEntry(planId) ==
    LET result == deleteSavedPlanEntry(planId, session, stores)
    IN  /\ session' = result.session
        /\ stores' = result.stores
        /\ api' = Outcome("deleteSavedPlanEntry", [NoArg EXCEPT !.planId = planId], result)
        /\ UNCHANGED <<now, blob, obs, lastPut, genAI, retry, call, tab, workout, analyzed, batch>>

\* lines 211-247
RestoreUserData(dataToRestore) ==
    LET result == restoreUserData(dataToRestore, session, stores)
    IN  /\ session' = result.session
        /\ stores' = result.stores
        /\ api' = Outcome("restoreUserData", [NoArg EXCEPT !.exercises = dataToRestore.exercises,
                                                     !.savedPlans = dataToRestore.savedPlans,
                                                     !.videos = dataToRestore.videos], result)
        /\ UNCHANGED <<now, blob, obs, lastPut, genAI, retry, call, tab, workout, analyzed, batch>>

(* App.tsx: actions *)

\* lines 148-166: a batch of videos is submitted (the view is rendered for
\* a logged-in user, line 403); an empty list returns at line 149
HandleAnalyzeVideos(videosToAnalyze, useProModel) ==
    /\ batch.pc \in {"idle", "done"}
    /\ analyzed.pc \in {"idle", "done"}
    /\ call.pc \in {"idle", "done"}
    /\ session # NoSession
    /\ Len(videosToAnalyze) > 0
    /\ batch.keys + Len(videosToAnalyze) <= MaxKeys
    /\ batch' = NextVideo([BatchIdle EXCEPT !.videosToAnalyze = videosToAnalyze,
                                            !.useProModel = useProModel,
                                            !.keys = batch.keys,
                                            !.user = session])
    /\ UNCHANGED <<now, blob, obs, lastPut, genAI, retry, call, session, stores, api, tab, workout, analyzed>>

\* lines 166-167: saveVideoFile resolves with a fresh key and the extraction
\* is called, without a hash
SaveVideoResolves ==
    /\ batch.pc = "saving"
    /\ session # NoSession
    /\ Analyze(batch.videosToAnalyze[batch.i].type, batch.useProModel, Undefined)
    /\ batch' = [batch EXCEPT !.pc = "extracting",
                              !.keys = @ + 1,
                              !.videoStorageKey = batch.keys + 1,
                              !.events = Append(@, [video |-> batch.i, step |-> "extract"])]
    /\ UNCHANGED <<session, stores, api, tab, workout, analyzed>>

\* lines 166 and 183-187: saveVideoFile rejects; without a session it
\* rejects with NotAuthenticated before anything is stored
SaveVideoFails(err) ==
    /\ batch.pc = "saving"
    /\ (session = NoSession) <=> (err = NotAuthenticated)
    /\ batch' = VideoFailed(batch, err)
    /\ UNCHANGED <<now, blob, obs, lastPut, genAI, retry, call, session, stores, api, tab, workout, analyzed>>

\* variant: the extraction is not awaited; a call still running counts as
\* a video without exercises
ExtractionEnds_NotAwaited ==
    /\ batch.pc = "extracting"
    /\ batch' = IF call.pc = "done" /\ call.status = "failed"
                THEN VideoFailed(batch, [isError |-> TRUE, message |-> call.error])
                ELSE VideoSucceeded(batch, IF call.pc = "done" THEN call.value ELSE EmptyList,
                                    now)
    /\ UNCHANGED <<now, blob, obs, lastPut, genAI, retry, call, session, stores, api, tab, workout, analyzed>>

\* lines 167-187: the extraction settles
ExtractionEnds ==
    /\ batch.pc = "extracting"
    /\ call.pc = "done"
    /\ batch' = IF call.status = "success"
                THEN VideoSucceeded(batch, call.value, now)
                ELSE VideoFailed(batch, [isError |-> TRUE, message |-> call.error])
    /\ UNCHANGED <<now, blob, obs, lastPut, genAI, retry, call, session, stores, api, tab, workout, analyzed>>

\* lines 190-206: after the loop; handleVideoAnalyzed is called when there
\* are new exercises
LoopEnds ==
    /\ batch.pc = "looped"
    /\ IF Len(batch.allNewlyExtractedExercises) > 0
       THEN /\ batch' = [batch EXCEPT !.pc = "storing"]
            /\ analyzed' = VideoAnalyzedCall(batch.allNewlyExtractedExercises)
       ELSE /\ batch' = Finished(batch)
            /\ UNCHANGED analyzed
    /\ UNCHANGED <<now, blob, obs, lastPut, genAI, retry, call, session, stores, api, tab, workout>>

\* lines 192-206: handleVideoAnalyzed has returned
StoreEnds ==
    /\ batch.pc = "storing"
    /\ analyzed.pc = "done"
    /\ batch' = Finished(batch)
    /\ UNCHANGED <<now, blob, obs, lastPut, genAI, retry, call, session, stores, api, tab, workout, analyzed>>

\* line 101: handleVideoAnalyzed is called with a list of exercises
HandleVideoAnalyzed(newlyExtractedExercises) ==
    /\ batch.pc \in {"idle", "done"}
    /\ analyzed.pc \in {"idle", "done"}
    /\ Len(library) + Len(newlyExtractedExercises) <= MaxLibrary
    /\ analyzed' = VideoAnalyzedCall(newlyExtractedExercises)
    /\ UNCHANGED <<now, blob, obs, lastPut, genAI, retry, call, session, stores, api, tab, workout, batch>>

\* lines 102-115: getAllExercises resolves; the new exercises are filtered
ExercisesRead ==
    LET unique == uniqueNewExercises(analyzed.newlyExtractedExercises, library)
    IN  /\ analyzed.pc = "reading"
        /\ analyzed' = [analyzed EXCEPT
                !.pc = IF Len(unique) > 0 THEN "saving" ELSE "done",
                !.currentExercises = library,
                !.updatedExercises = IF Len(unique) > 0 THEN library \o unique ELSE <<>>]
        /\ UNCHANGED <<now, blob, obs, lastPut, genAI, retry, call, session, stores, api, tab, workout, batch>>

\* lines 116-117: saveAllExercises replaces the stored list
ExercisesSaved ==
    /\ analyzed.pc = "saving"
    /\ session # NoSession
    /\ stores' = saveAllExercises(session, stores, analyzed.updatedExercises).stores
    /\ analyzed' = [analyzed EXCEPT !.pc = "done", !.saved = TRUE]
    /\ UNCHANGED <<now, blob, obs, lastPut, genAI, retry, call, session, api, tab, workout, batch>>

\* lines 118-121: saveAllExercises rejects
ExercisesSaveFails ==
    /\ analyzed.pc = "saving"
    /\ analyzed' = [analyzed EXCEPT
            !.pc = "done", !.error = "Could not save new exercises to your account."]
    /\ UNCHANGED <<now, blob, obs, lastPut, genAI, retry, call, session, stores, api, tab, workout, batch>>

(* Specifications *)

\* the cache API called directly
NextCache ==
    \/ \E d \in ClockSteps : AdvanceClock(d)
    \/ \E h \in Hashes, v \in Variants : GetCachedAnalysis(h, v)
    \/ \E h \in Hashes, v \in Variants, r \in Results : CacheAnalysis(h, r, v)
    \/ ClearExpiredCache
    \/ ClearAllCache

SpecCache == Init /\ [][NextCache]_vars

\* the retry wrapper around an arbitrary operation
NextRetry ==
    \/ \E m \in RetryCeilings, d \in InitialDelays : RetryStart(m, d)
    \/ \E v \in FnValues : FnReturns(v)
    \/ \E e \in ModelErrors : FnThrows(e)
    \/ RetryWake

SpecRetry == Init /\ [][NextRetry]_vars

\* the orchestrator, which alone reads and writes the cache
Next ==
    \/ \E d \in ClockSteps : AdvanceClock(d)
    \/ \E f \in FileTypes, p \in BOOLEAN, h \in HashArgs : AnalyzeStart(f, p, h)
    \/ FileRead
    \/ FileReadFails
    \/ \E t \in ResponseTexts : ModelReturns(t)
    \/ \E e \in ModelErrors : ModelFails(e)
    \/ RetryWake

Spec == Init /\ [][Next]_vars

\* the orchestrator when the file read, each call of the model and each
\* sleep between attempts come to an end
\* invocations at one instant of the clock
NextLive ==
    \/ \E f \in FileTypes, p \in BOOLEAN, h \in HashArgs : AnalyzeStart(f, p, h)
    \/ FileRead
    \/ FileReadFails
    \/ \E t \in ResponseTexts : ModelReturns(t)
    \/ \E e \in ModelErrors : ModelFails(e)
    \/ RetryWake

SpecLive ==
    /\ Init /\ [][NextLive]_vars
    /\ WF_vars(FileRead \/ FileReadFails)
    /\ WF_vars((\E t \in ResponseTexts : ModelReturns(t)) \/ (\E e \in ModelErrors : ModelFails(e)))
    /\ WF_vars(RetryWake)

\* the orchestrator with a model that always answers, over the payload shapes
NextShape ==
    \/ \E p \in BOOLEAN, h \in HashArgs : AnalyzeStart("video/mp4", p, h)
    \/ FileRead
    \/ \E t \in ShapeTexts : ModelReturns(t)

SpecShape == Init /\ [][NextShape]_vars

\* the orchestrator and its cache, over responses with large numerals
NextOverflow ==
    \/ \E p \in BOOLEAN, h \in HashArgs : AnalyzeStart("video/mp4", p, h)
    \/ FileRead
    \/ \E t \in OverflowTexts : ModelReturns(t)

SpecOverflow == Init /\ [][NextOverflow]_vars

\* the orchestrator without a content hash, over every failure of the try block
NextCatch ==
    \/ \E p \in BOOLEAN : AnalyzeStart("video/mp4", p, Undefined)
    \/ FileRead
    \/ \E t \in ResponseTexts : ModelReturns(t)
    \/ \E e \in CatchErrors : ModelFails(e)
    \/ RetryWake

SpecCatch == Init /\ [][NextCatch]_vars

\* batches of videos submitted to handleAnalyzeVideos
NextBatch ==
    \/ \E n \in 1..MaxVideos : \E v \in [1..n -> VideoFiles], p \in BOOLEAN :
            HandleAnalyzeVideos(v, p)
    \/ SaveVideoResolves
    \/ \E e \in SaveErrors : SaveVideoFails(e)
    \/ FileRead
    \/ \E t \in BatchTexts : ModelReturns(t)
    \/ \E e \in BatchErrors : ModelFails(e)
    \/ RetryWake
    \/ ExtractionEnds
    \/ LoopEnds
    \/ ExercisesRead
    \/ ExercisesSaved
    \/ ExercisesSaveFails
    \/ StoreEnds

SpecBatch == Init /\ [][NextBatch]_vars

\* handleVideoAnalyzed called with lists of exercises
\* a batch of one video while users log out, log in and sign up
NextSession ==
    \/ \E v \in [{1} -> VideoFiles] : HandleAnalyzeVideos(v, FALSE)
    \/ SaveVideoResolves
    \/ \E e \in SaveErrors \cup {NotAuthenticated} : SaveVideoFails(e)
    \/ FileRead
    \/ \E t \in BatchTexts : ModelReturns(t)
    \/ ExtractionEnds
    \/ LoopEnds
    \/ ExercisesRead
    \/ ExercisesSaved
    \/ ExercisesSaveFails
    \/ StoreEnds
    \/ Logout
    \/ \E e \in Emails : Login(e)
    \/ \E e \in Emails : Signup(e)

SpecSession == Init /\ [][NextSession]_vars

\* the operations of the service, called in any order
NextApi ==
    \/ \E e \in Emails : Signup(e)
    \/ \E e \in Emails : Login(e)
    \/ Logout
    \/ \E stored \in BOOLEAN : SaveVideoFile(stored)
    \/ GetAllExercises
    \/ \E l \in ApiLists : SaveAllExercises(l)
    \/ \E e \in ApiExercises : DeleteExercise(e.id)
    \/ GetAllSavedPlanEntries
    \/ \E p \in ApiPlans : SavePlanEntry(p)
    \/ \E p \in ApiPlans : DeleteSavedPlanEntry(p.id)
    \/ \E d \in Backups : RestoreUserData(d)

SpecApi == Init /\ [][NextApi]_vars

\* plans are saved and deleted, starting from the empty store
NextPlans ==
    \/ \E p \in PlanInputs : SavePlanEntry(p)
    \/ \E i \in PlanIds : DeleteSavedPlanEntry(i)
    \/ GetAllSavedPlanEntries

SpecPlans == Init /\ [][NextPlans]_vars

\* a workout: the timer and the effect always get to run
NextWorkout ==
    \/ \E d \in Days : HandleStartWorkout(d)
    \/ CompleteSet
    \/ NextExercise
    \/ PrevExercise
    \/ FinishWorkout
    \/ SkipRest
    \/ RestTick
    \/ RestEnds

SpecWorkout ==
    Init /\ [][NextWorkout]_vars /\ WF_vars(RestTick) /\ WF_vars(RestEnds)

NextLibrary ==
    \/ \E l \in ExerciseLists : HandleVideoAnalyzed(l)
    \/ ExercisesRead
    \/ ExercisesSaved
    \/ ExercisesSaveFails

SpecLibrary == Init /\ [][NextLibrary]_vars

\* the cache written by this tab and by a second one
NextTabs ==
    \/ \E h \in Hashes, v \in Variants : CacheAnalysis(h, SquatList, v)
    \/ \E h \in Hashes : TabReads(h, EmptyList, "flash")
    \/ TabWrites

SpecTabs == Init /\ [][NextTabs]_vars

TypeOK ==
    /\ now \in 0..MaxNow
    /\ blob.present \in BOOLEAN
    /\ retry.pc \in {"idle", "calling", "sleeping", "returned", "threw"}
    /\ call.pc \in {"idle", "reading", "analyzing", "done"}

(* Properties of the cache store, under SpecCache *)

C2_ExpiredRemoved ==
    obs.op = "get" =>
        LET key == obs.videoHash \o "_" \o obs.modelUsed
            before == getCache(obs.before)
            after == getCache(blob)
        IN  key \in DOMAIN before =>
                IF obs.at - before[key].timestamp > 30
                THEN /\ obs.ret = Null
                     /\ key \notin DOMAIN after
                     /\ after = [k \in (DOMAIN before) \ {key} |-> before[k]]
                ELSE /\ obs.ret = before[key].analysisResult
                     /\ blob = obs.before

C2_Witness ==
    /\ obs.op = "get"
    /\ LET key == obs.videoHash \o "_" \o obs.modelUsed
           before == getCache(obs.before)
       IN  /\ key \in DOMAIN before
           /\ obs.at - before[key].timestamp = 31
           /\ obs.ret = Null
           /\ key \notin DOMAIN getCache(blob)
           /\ DOMAIN getCache(blob) # {}

\* C3: two distinct (hash, variant) pairs, variants in {'pro','flash'} and
\* hashes possibly containing '_', never share an entry: a put for one pair
\* adds or replaces exactly its own entry and leaves what get returns for
\* every other pair unchanged.
C3_KeyIsolation ==
    obs.op = "put" =>
        /\ \A h \in Hashes, v \in Variants :
              <<h, v>> # <<obs.videoHash, obs.modelUsed>> =>
                  getCachedAnalysis(blob, h, v, obs.at)[1]
                      = getCachedAnalysis(obs.before, h, v, obs.at)[1]
        /\ \A h \in Hashes :
              ( /\ <<h, "pro">> # <<obs.videoHash, obs.modelUsed>>
                /\ <<h, "flash">> # <<obs.videoHash, obs.modelUsed>> )
              => \A k \in {h \o "_pro", h \o "_flash"} :
                    /\ k \in DOMAIN getCache(blob) <=> k \in DOMAIN getCache(obs.before)
                    /\ k \in DOMAIN getCache(blob) =>
                           getCache(blob)[k] = getCache(obs.before)[k]

C3_Witness ==
    /\ obs.op = "put"
    /\ obs.videoHash = "ab"
    /\ obs.modelUsed = "flash"
    /\ {"ab_pro", "ab_flash", "ab_pro_pro"} \subseteq DOMAIN getCache(blob)
    /\ "ab_flash" \notin DOMAIN getCache(obs.before)
    /\ getCache(blob)["ab_pro"].analysisResult # getCache(blob)["ab_flash"].analysisResult
    /\ getCache(blob)["ab_pro"].videoHash = "ab"
    /\ getCache(blob)["ab_pro_pro"].videoHash = "ab_pro"

(* Properties of the retry wrapper, under SpecRetry *)

\* C4: when every call of the operation fails with a retryable error,
\* retryWithBackoff calls it exactly maxRetries + 1 times (4 by default) and
\* only then propagates the failure.
C4_AttemptsWhenExhausted ==
    LET retryable == {"503 Service Unavailable", "Response was blocked"}
        allFail == \A i \in 1..Len(retry.log) :
                       /\ retry.log[i].kind = "throw"
                       /\ retry.log[i].message \in retryable
    IN  (retry.pc # "idle" /\ allFail) =>
            /\ retry.calls <= retry.maxRetries + 1
            /\ retry.pc = "threw" <=> Len(retry.log) = retry.maxRetries + 1
            /\ retry.pc = "threw" => retry.calls = retry.maxRetries + 1
            /\ retry.pc # "returned"

C4_Witness ==
    /\ retry.pc = "threw"
    /\ retry.maxRetries = 3
    /\ retry.calls = 4
    /\ Len(retry.log) = 4
    /\ \A i \in 1..4 : retry.log[i].message = "503 Service Unavailable"

\* C5: retryWithBackoff returns the result of the first successful call and
\* calls the operation no more after it: one retryable failure followed by a
\* success means exactly two calls and the success value returned.
C5_FirstSuccessReturned ==
    \A i \in 1..Len(retry.log) :
        retry.log[i].kind = "return" =>
            /\ i = Len(retry.log)
            /\ retry.pc = "returned"
            /\ retry.calls = i
            /\ retry.result = retry.log[i].value
            /\ \A j \in 1..(i - 1) : retry.log[j].kind = "throw"

C5_Witness ==
    /\ retry.pc = "returned"
    /\ retry.maxRetries = 3
    /\ retry.calls = 2
    /\ retry.log[1].kind = "throw"
    /\ retry.log[2].kind = "return"
    /\ retry.result = JStr("second")

\* C6: a failure whose lower-cased message contains '400', 'invalid file' or
\* 'malformed' ends retryWithBackoff at once: no further call, no sleep, and
\* that same error is propagated; if it is the first call, the operation is
\* called exactly once.
C6_ClientErrorAborts ==
    \A i \in 1..Len(retry.log) :
        ( /\ retry.log[i].kind = "throw"
          /\ retry.log[i].message \in {"400 Bad Request", "Invalid file"} )
        => /\ i = Len(retry.log)
           /\ retry.pc = "threw"
           /\ retry.calls = i
           /\ retry.thrown = [message |-> retry.log[i].message, id |-> i]
           /\ Len(retry.sleeps) = i - 1

C6_Witness ==
    /\ retry.pc = "threw"
    /\ retry.maxRetries = 3
    /\ retry.calls = 1
    /\ retry.log[1].message = "Invalid file"
    /\ retry.thrown = [message |-> "Invalid file", id |-> 1]
    /\ retry.sleeps = <<>>

\* C7: after the retryable failure of attempt k (0-based), k < maxRetries,
\* retryWithBackoff sleeps initialDelay * 2^k (2000, 4000, 8000 ms by
\* default); it does not sleep after the final attempt.
C7_BackoffDelays ==
    /\ \A k \in 1..Len(retry.sleeps) :
          retry.sleeps[k] = retry.initialDelay * (2 ^ (k - 1))
    /\ Len(retry.sleeps) <= retry.maxRetries
    /\ Len(retry.sleeps) <= Len(retry.log)
    /\ \A i \in 1..Len(retry.log) :
          ( /\ retry.log[i].kind = "throw"
            /\ retry.log[i].message \in {"503 Service Unavailable", "Response was blocked"}
            /\ i - 1 < retry.maxRetries )
          => Len(retry.sleeps) >= i

C7_Witness ==
    /\ retry.pc = "threw"
    /\ retry.maxRetries = 3
    /\ retry.initialDelay = 2000
    /\ retry.calls = 4
    /\ retry.sleeps = <<2000, 4000, 8000>>

\* C8: when all maxRetries + 1 calls fail with retryable errors, the error
\* propagated is the one thrown by the last call.
C8_LastErrorPropagated ==
    ( /\ retry.pc = "threw"
      /\ Len(retry.log) = retry.maxRetries + 1
      /\ \A i \in 1..Len(retry.log) :
            retry.log[i].message \in {"503 Service Unavailable", "Response was blocked"} )
    => retry.thrown = [message |-> retry.log[Len(retry.log)].message,
                       id |-> Len(retry.log)]

C8_Witness ==
    /\ retry.pc = "threw"
    /\ retry.maxRetries = 3
    /\ Len(retry.log) = 4
    /\ retry.log[1].message = "503 Service Unavailable"
    /\ retry.log[3].message = "503 Service Unavailable"
    /\ retry.log[4].message = "Response was blocked"
    /\ retry.thrown = [message |-> "Response was blocked", id |-> 4]

(* Properties of the orchestrator, under Spec *)

\* C9: a call with a content hash for which an unexpired entry exists under
\* the requested variant returns that cached result and calls the model zero
\* times (retryWithBackoff is never entered).
C9_CacheHitSkipsModel ==
    LET key == obs.videoHash \o "_" \o obs.modelUsed
        before == getCache(obs.before)
    IN  ( /\ call.pc # "idle"
          /\ call.videoHash.t = "string"
          /\ obs.op = "get"
          /\ obs.videoHash = call.videoHash.v
          /\ obs.modelUsed = (IF call.useProModel THEN "pro" ELSE "flash")
          /\ key \in DOMAIN before
          /\ obs.at - before[key].timestamp <= 30 )
        => /\ call.pc = "done"
           /\ call.status = "success"
           /\ call.value = before[key].analysisResult
           /\ retry.pc = "idle"
           /\ retry.calls = 0

C9_Witness ==
    /\ call.pc = "done"
    /\ call.status = "success"
    /\ call.fromCache
    /\ call.useProModel
    /\ call.videoHash = JStr("ab_pro")
    /\ call.value = SquatList
    /\ obs.op = "get"
    /\ "ab_pro_pro" \in DOMAIN getCache(obs.before)
    /\ obs.at - getCache(obs.before)["ab_pro_pro"].timestamp = 30
    /\ retry.calls = 0

\* C10: whenever a call that consulted the model returns successfully and a
\* content hash was supplied, the returned result is in the cache under
\* (hash, variant) when the call returns, the return for an empty model
\* response included.
C10_WriteThrough ==
    ( /\ call.pc = "done"
      /\ call.status = "success"
      /\ ~call.fromCache
      /\ retry.calls >= 1
      /\ call.videoHash.t = "string" )
    => LET key == call.videoHash.v \o "_" \o (IF call.useProModel THEN "pro" ELSE "flash")
       IN  /\ key \in DOMAIN getCache(blob)
           /\ getCache(blob)[key].analysisResult = call.value

C15_ShapeErrorsNotRetried ==
    /\ [] ( \A i \in 1..Len(retry.log) :
               retry.log[i].kind = "return" =>
                   /\ i = Len(retry.log)
                   /\ retry.pc = "returned"
                   /\ retry.calls = i
                   /\ call.pc = "done"
                   /\ call.status = (IF Extracted[retry.log[i].value].kind = "return"
                                     THEN "success" ELSE "failed") )
    /\ [][ (call.pc = "done" /\ retry.pc = "returned")
           => \/ retry'.calls = retry.calls /\ retry'.log = retry.log
              \/ retry' = RetryIdle ]_vars

\* a response cut short arrives on the second attempt
C15_Witness ==
    /\ call.pc = "done"
    /\ call.status = "failed"
    /\ includes(call.error, "The AI returned malformed JSON.")
    /\ retry.pc = "returned"
    /\ retry.calls = 2
    /\ retry.log[1].kind = "throw"
    /\ retry.log[2].value = JStr("[{\"name\":\"Squat\"")

(* Properties of the response handling, under SpecShape *)

\* the responses whose array holds an item failing one of the four checks
InvalidListTexts ==
    UNION { {JStr(w), JStr(Fenced(w))} :
              w \in UNION { Wrappings(ArrayText(s)) :
                              s \in {q \in ItemSeqs :
                                        \E i \in DOMAIN q : q[i] \in InvalidItemTexts} } }

\* C12: when any element of the array found in the response lacks a string
\* name, a string description, a numeric startTime or a numeric endTime, the
\* call throws, returns no element (the valid ones included) and writes
\* nothing to the cache.
C12_AllOrNothing ==
    [][ ( /\ retry.pc = "calling"
          /\ retry'.pc = "returned"
          /\ retry'.result \in InvalidListTexts )
        => /\ call'.pc = "done"
           /\ call'.status = "failed"
           /\ call'.value = Undefined
           /\ call'.error =
                  "Failed to parse AI response from video. Raw response might be invalid. Error: Parsed data is not a valid array of exercises."
           /\ blob' = blob
           /\ lastPut' = lastPut ]_vars

C12_Witness ==
    /\ call.pc = "done"
    /\ call.status = "failed"
    /\ call.videoHash = JStr("ab_pro")
    /\ call.value = Undefined
    /\ retry.pc = "returned"
    /\ retry.result = JStr(ArrayText(<<ValidItemText,
           "{\"name\":\"Squat\",\"description\":\"Bend\",\"endTime\":5}">>))
    /\ blob = NoBlob

\* <<payload, n>>: the payload carries a list of n valid items, as the whole
\* payload or as the only array among the properties of an object
ValidListPayloads ==
    UNION { {<<w, Len(s)>> : w \in Wrappings(ArrayText(s))} :
              s \in {q \in ItemSeqs : \A i \in DOMAIN q : q[i] = ValidItemText} }

\* C13: a top-level array is used as the exercise list; of a top-level object
\* the first array among its property values (in Object.values order) is
\* used, so an object with one array-valued property yields that array; an
\* object without an array-valued property and every value that is neither
\* an array nor an object is rejected with an error.
C13_ArrayLocation ==
    LET firstIsEmpty == { "{\"a\":[],\"b\":" \o ArrayText(<<ValidItemText>>) \o "}",
                          "{\"b\":" \o ArrayText(<<ValidItemText>>) \o ",\"1\":[]}" }
        noArray == { "7", "\"Squat\"", "null", "true", "{}", "{\"count\":2}",
                     "{\"plan\":{\"exercises\":[]}}" }
    IN  (retry.pc = "returned" /\ retry.result.t = "string") =>
            /\ \A pn \in ValidListPayloads :
                  retry.result.v = pn[1] =>
                      /\ call.status = "success"
                      /\ call.value =
                             JArr([i \in 1..pn[2] |-> ExerciseItem("Squat", "Bend", 0, 5)])
            /\ retry.result.v \in firstIsEmpty =>
                  /\ call.status = "success"
                  /\ call.value = EmptyList
            /\ retry.result.v \in noArray =>
                  /\ call.status = "failed"
                  /\ call.value = Undefined
                  /\ call.error =
                         "Failed to parse AI response from video. Raw response might be invalid. Error: Parsed data is not a valid array of exercises."

C13_Witness ==
    /\ call.pc = "done"
    /\ call.status = "success"
    /\ retry.pc = "returned"
    /\ retry.result = JStr("{\"count\":2,\"exercises\":"
                               \o ArrayText(<<ValidItemText, ValidItemText>>) \o "}")
    /\ Len(call.value.v) = 2
    /\ call.value.v[2] = ExerciseItem("Squat", "Bend", 0, 5)

\* <<payload, fenced>>: a payload and the same payload inside a json fence
FencePairs ==
    {<<p, JStr(Fenced(p))>> : p \in Payloads}
        \cup {<<p, JStr(FencedTight(p))>> : p \in OtherPayloads}

\* C14: for every valid JSON payload, the call answered with the payload
\* inside a json code fence ends as the call answered with the bare payload
\* ends: the same array returned or the same error thrown.
C14_FenceEquivalence ==
    \A pf \in FencePairs :
        (retry.pc = "returned" /\ retry.result = pf[2])
        => LET bare == Extracted[JStr(pf[1])]
           IN  /\ call.pc = "done"
               /\ bare.kind = "return" =>
                      /\ call.status = "success"
                      /\ call.value = bare.value
               /\ bare.kind = "throw" =>
                      /\ call.status = "failed"
                      /\ call.error = rethrow(bare.message)

C14_Witness ==
    /\ call.pc = "done"
    /\ call.status = "success"
    /\ call.value = SquatList
    /\ retry.pc = "returned"
    /\ retry.result = JStr(Fenced(ArrayText(<<ValidItemText>>)))

(* Properties of the catch block, under SpecCatch *)

\* C16: every failure raised between the model call and the validation
\* reaches the caller as one of two new errors: when its message contains
\* "400 Bad Request", "blocked" or "Proxying failed", the 'could not process
\* the video' error; otherwise the 'Failed to parse AI response from video'
\* error; either one ends with the original message and is not the original
\* error.
C16_TwoErrors ==
    LET rewritten == {"400 Bad Request", "Response was blocked", "Proxying failed"}
        original == IF retry.pc = "threw" THEN retry.thrown.message
                    ELSE Extracted[retry.result].message
    IN  ( /\ call.pc = "done"
          /\ call.status = "failed"
          /\ retry.pc \in {"threw", "returned"} )
        => /\ call.error # original
           /\ call.value = Undefined
           /\ IF original \in rewritten
              THEN call.error =
                       "The AI model could not process the video. This can happen with very large, long, or complex videos. Please try a shorter, simpler clip. Error details: "
                           \o original
              ELSE call.error =
                       "Failed to parse AI response from video. Raw response might be invalid. Error: "
                           \o original

C16_Witness ==
    /\ call.pc = "done"
    /\ call.status = "failed"
    /\ retry.pc = "threw"
    /\ retry.calls = 4
    /\ retry.thrown = [message |-> "Proxying failed", id |-> 4]
    /\ startsWith(call.error, "The AI model could not process the video.")
    /\ endsWith(call.error, "Error details: Proxying failed")

(* Properties of the batch of videos, under SpecBatch *)

\* C17: within one handleAnalyzeVideos batch the videos are processed one
\* after the other in the order submitted: the first step is the save of
\* video 1, every save of a later video directly follows the success or the
\* failure of the video before it, the extraction of a video follows its own
\* save, and while an extraction call is running (reading the file, calling
\* the model or sleeping between attempts) the batch waits for it, the last
\* step taken being the start of that extraction: at most one is in flight
C17_Sequential ==
    LET ev == batch.events
        n == Len(ev)
        ended == {"succeeded", "failed"}
    IN  /\ n > 0 => ev[1] = [video |-> 1, step |-> "save"]
        /\ \A k \in 2..n :
              /\ ev[k].step = "save" =>
                    ev[k].video = ev[k - 1].video + 1 /\ ev[k - 1].step \in ended
              /\ ev[k].step = "extract" =>
                    ev[k].video = ev[k - 1].video /\ ev[k - 1].step = "save"
              /\ ev[k].step = "succeeded" =>
                    ev[k].video = ev[k - 1].video /\ ev[k - 1].step = "extract"
              /\ ev[k].step = "failed" =>
                    ev[k].video = ev[k - 1].video /\ ev[k - 1].step \in {"save", "extract"}
        /\ \A k \in 1..n : ev[k].video \in 1..Len(batch.videosToAnalyze)
        /\ (call.pc \in {"reading", "analyzing"} \/ retry.pc \in {"calling", "sleeping"}) =>
              /\ batch.pc = "extracting"
              /\ ev[n] = [video |-> batch.i, step |-> "extract"]
        /\ Cardinality({k \in 1..n : ev[k].step = "extract"
                            /\ ~\E j \in (k + 1)..n : ev[j].video = ev[k].video}) <= 1

\* a batch of two videos whose loop has ended: the first video failed in its
\* extraction, the second succeeded
C17_Witness ==
    /\ batch.pc = "looped"
    /\ Len(batch.videosToAnalyze) = 2
    /\ batch.events = << [video |-> 1, step |-> "save"], [video |-> 1, step |-> "extract"],
                         [video |-> 1, step |-> "failed"], [video |-> 2, step |-> "save"],
                         [video |-> 2, step |-> "extract"], [video |-> 2, step |-> "succeeded"] >>
    /\ retry.calls > 0

\* C18: a failure touches only its own video. When the loop of a batch of N
\* videos has ended, a save was started for every one of the N videos,
\* whatever happened to the videos before it, and filesProcessedSuccessfully
\* + filesFailed = N, each counting the videos that ended that way. A video
\* that fails leaves the exercises collected so far as they are, a video
\* that succeeds adds its own exercises, under its storage key, behind them,
\* and after the loop all of them are handed to handleVideoAnalyzed
C18_FailureIsLocal ==
    /\ [](batch.pc \in {"looped", "storing", "done"} =>
            LET ev == batch.events
                Count(step) == Cardinality({k \in 1..Len(ev) : ev[k].step = step})
            IN  /\ \A v \in 1..Len(batch.videosToAnalyze) :
                        \E k \in 1..Len(ev) : ev[k] = [video |-> v, step |-> "save"]
                /\ batch.filesProcessedSuccessfully + batch.filesFailed
                        = Len(batch.videosToAnalyze)
                /\ batch.filesProcessedSuccessfully = Count("succeeded")
                /\ batch.filesFailed = Count("failed")
                /\ Len(batch.errorMessages) = batch.filesFailed)
    /\ [][(batch.pc \in {"saving", "extracting"} /\ batch' # batch
                /\ batch'.pc # "extracting") =>
            LET all == batch.allNewlyExtractedExercises
                after == batch'.allNewlyExtractedExercises
            IN  IF batch.pc = "extracting" /\ call.status = "success"
                THEN /\ Len(after) = Len(all) + Len(call.value.v)
                     /\ SubSeq(after, 1, Len(all)) = all
                     /\ \A k \in 1..Len(call.value.v) :
                            LET ex == after[Len(all) + k]
                            IN  /\ ex.name = GetProp(call.value.v[k], "name")
                                /\ ex.startTime = GetProp(call.value.v[k], "startTime")
                                /\ ex.endTime = GetProp(call.value.v[k], "endTime")
                                /\ ex.videoStorageKey = batch.videoStorageKey
                     /\ batch'.filesFailed = batch.filesFailed
                ELSE /\ after = all
                     /\ batch'.filesFailed = batch.filesFailed + 1]_vars
    /\ [][(batch.pc = "looped" /\ batch' # batch
                /\ Len(batch.allNewlyExtractedExercises) > 0) =>
            /\ analyzed'.pc = "reading"
            /\ analyzed'.newlyExtractedExercises = batch.allNewlyExtractedExercises]_vars

\* a batch of two videos after its loop: the first video failed, the second
\* gave two exercises, which are being stored
C18_Witness ==
    /\ batch.pc = "storing"
    /\ Len(batch.videosToAnalyze) = 2
    /\ batch.events[3] = [video |-> 1, step |-> "failed"]
    /\ batch.filesFailed = 1
    /\ batch.filesProcessedSuccessfully = 1
    /\ Len(batch.allNewlyExtractedExercises) = 2
    /\ analyzed.newlyExtractedExercises = batch.allNewlyExtractedExercises

(* Properties of the exercise library, under SpecLibrary *)

\* C19: handleVideoAnalyzed appends to the stored exercises exactly the new
\* exercises that agree with no stored exercise on all of name,
\* videoStorageKey, startTime and endTime, in the order given. The stored
\* exercises stay as they were, in their order, in front of them; the
\* library is written by the save of a call and by nothing else; and when
\* every new exercise agrees with a stored one the call ends without a save
\* and the library is the one it read
C19_AppendsUnmatched ==
    /\ [](analyzed.pc = "done" /\ analyzed.error = "" =>
            LET cur == analyzed.currentExercises
                new == analyzed.newlyExtractedExercises
                Matched(x) == \E k \in 1..Len(cur) :
                                  /\ cur[k].name = x.name
                                  /\ cur[k].videoStorageKey = x.videoStorageKey
                                  /\ cur[k].startTime = x.startTime
                                  /\ cur[k].endTime = x.endTime
                kept == {k \in 1..Len(new) : ~Matched(new[k])}
                place(k) == Len(cur) + Cardinality({j \in kept : j <= k})
            IN  /\ analyzed.saved <=> kept # {}
                /\ Len(library) = Len(cur) + Cardinality(kept)
                /\ SubSeq(library, 1, Len(cur)) = cur
                /\ \A k \in kept : library[place(k)] = new[k])
    /\ [][library' # library =>
            /\ analyzed.pc = "saving"
            /\ analyzed'.saved
            /\ analyzed.currentExercises = library]_vars

\* a call with two exercises on a library of one: the first differs from the
\* stored exercise in its id alone and is left out, the second differs in
\* its storage key and is appended
C19_Witness ==
    /\ analyzed.pc = "done"
    /\ analyzed.saved
    /\ Len(analyzed.currentExercises) = 1
    /\ Len(analyzed.newlyExtractedExercises) = 2
    /\ analyzed.newlyExtractedExercises[1].id # analyzed.currentExercises[1].id
    /\ analyzed.newlyExtractedExercises[1].videoStorageKey = 1
    /\ analyzed.newlyExtractedExercises[1].name = JStr("Squat")
    /\ analyzed.newlyExtractedExercises[2].videoStorageKey = 2
    /\ library = Append(analyzed.currentExercises, analyzed.newlyExtractedExercises[2])

(* Properties of the sweep, under SpecCache *)

\* C20: clearExpiredCache removes the entries that are more than
\* CACHE_EXPIRY_DAYS old when it runs, and no others: it returns how many
\* those were, every other entry is afterwards stored as it was before, and
\* when there was none to remove the storage item is the one found, absent
\* if it was absent
C20_Sweep ==
    obs.op = "sweep" =>
        LET before == IF obs.before.present THEN obs.before.map ELSE EmptyMap
            old == {k \in DOMAIN before :
                        obs.at - before[k].timestamp > CACHE_EXPIRY_DAYS}
        IN  /\ obs.ret = JNum(Cardinality(old))
            /\ IF old = {}
               THEN blob = obs.before
               ELSE /\ blob.present
                    /\ DOMAIN blob.map = (DOMAIN before) \ old
                    /\ \A k \in DOMAIN blob.map : blob.map[k] = before[k]

\* a sweep that removed one entry, 31 days old, and left the other entry
\* of the cache, written that day
C20_Witness ==
    /\ obs.op = "sweep"
    /\ obs.ret = JNum(1)
    /\ obs.before.present
    /\ Cardinality(DOMAIN obs.before.map) = 2
    /\ \E k \in DOMAIN obs.before.map : obs.at - obs.before.map[k].timestamp = 31
    /\ blob.present
    /\ \E k \in DOMAIN blob.map : blob.map[k].timestamp = obs.at

(* Properties of two writers of the cache, under SpecTabs *)

\* C21: the cache is read, changed and written back without a lock. When a
\* second writer stores its map, the storage item becomes the map that
\* writer read with its own entry in it, whatever was stored in between: an
\* entry another writer added after that read, under another key, is no
\* longer there (the last write wins)
C21_LastWriteWins ==
    [][(tab.pc = "read" /\ tab'.pc = "wrote") =>
            /\ blob'.present
            /\ DOMAIN blob'.map = DOMAIN tab.cache \cup {tab.key}
            /\ blob'.map[tab.key] = tab.entry
            /\ \A k \in DOMAIN tab.cache \ {tab.key} : blob'.map[k] = tab.cache[k]
            /\ \A k \in DOMAIN getCache(blob) :
                    (k \notin DOMAIN tab.cache /\ k # tab.key) => k \notin DOMAIN blob'.map]_vars

\* both writers read an empty cache; this tab stored its entry first, the
\* second tab stored its own afterwards, and the entry of this tab is gone
C21_Witness ==
    /\ tab.pc = "wrote"
    /\ tab.cache = EmptyMap
    /\ lastPut.valid
    /\ obs.op = "put"
    /\ obs.before = NoBlob
    /\ CacheKey(lastPut.videoHash, lastPut.modelUsed) \notin DOMAIN getCache(blob)
    /\ DOMAIN getCache(blob) = {tab.key}

(* Properties of one invocation, under SpecLive *)

\* C22: an invocation of analyzeVideoAndExtractExercises that is in flight
\* (reading the file or calling the model) always ends; it has ended in
\* exactly one of success and failure; the model is called at most 4 times
\* for it; and once it has ended nothing more happens to it: the next change
\* of the call is the start of another invocation, which begins with a
\* fresh retry loop
C22_Lifecycle ==
    /\ (call.pc \in {"reading", "analyzing"}) ~> (call.pc = "done")
    /\ [](/\ call.pc = "done" => call.status \in {"success", "failed"}
          /\ call.pc \in {"idle", "reading", "analyzing"} => call.status = "none"
          /\ retry.calls <= 4
          /\ Len(retry.log) <= 4)
    /\ [][call.pc = "done" =>
            /\ call'.pc \in {"done", "reading"}
            /\ (call' # call \/ retry' # retry) => retry' = RetryIdle]_vars

\* an invocation that failed after 4 calls of the model
C22_Witness ==
    /\ call.pc = "done"
    /\ call.status = "failed"
    /\ retry.calls = 4
    /\ Len(retry.sleeps) = 3

(* Properties of the values returned, under SpecOverflow *)

\* C23: the cache being written by the orchestrator alone, every value an
\* invocation returns, from the model or from the cache, is an array whose
\* elements each have a string name, a string description, a number
\* startTime and a number endTime
C23_ReturnsValidated ==
    (call.pc = "done" /\ call.status = "success") =>
        /\ call.value.t = "array"
        /\ \A k \in 1..Len(call.value.v) :
              /\ call.value.v[k].t = "object"
              /\ TypeOf(GetProp(call.value.v[k], "name")) = "string"
              /\ TypeOf(GetProp(call.value.v[k], "description")) = "string"
              /\ TypeOf(GetProp(call.value.v[k], "startTime")) = "number"
              /\ TypeOf(GetProp(call.value.v[k], "endTime")) = "number"

(* Properties of failed invocations, under Spec *)

\* C24 as claimed: when an invocation with a content hash fails, the cache
\* is exactly the one found when the invocation started
C24_FailureLeavesCache ==
    (call.pc = "done" /\ call.status = "failed" /\ Truthy(call.videoHash)) =>
        /\ obs.op = "get"
        /\ blob = obs.before

\* C24: a failed invocation creates no cache entry. The cache it leaves is
\* the one it found, but for the entry of its own (hash, variant), which is
\* removed when found expired at the start; no step of an invocation that
\* does not succeed writes the cache; and after the failure there is no
\* entry for its (hash, variant), so the next call with them misses
C24_FailureCreatesNoEntry ==
    /\ []((call.pc = "done" /\ call.status = "failed" /\ Truthy(call.videoHash)) =>
            LET key == call.videoHash.v \o "_" \o (IF call.useProModel THEN "pro" ELSE "flash")
                before == IF obs.before.present THEN obs.before.map ELSE EmptyMap
                after == IF blob.present THEN blob.map ELSE EmptyMap
                expired == key \in DOMAIN before
                              /\ obs.at - before[key].timestamp > CACHE_EXPIRY_DAYS
            IN  /\ obs.op = "get"
                /\ key \notin DOMAIN after
                /\ key \in DOMAIN before => expired
                /\ DOMAIN after = (DOMAIN before) \ {key}
                /\ \A k \in DOMAIN after : after[k] = before[k]
                /\ ~expired => blob = obs.before)
    /\ [][(call.pc \in {"reading", "analyzing"} /\ call'.status # "success") =>
            blob' = blob]_vars

\* an invocation that found the entry of its key expired, removed it, and
\* failed, the entry of the other variant being left as it was
C24_Witness ==
    /\ call.pc = "done"
    /\ call.status = "failed"
    /\ Truthy(call.videoHash)
    /\ retry.calls > 0
    /\ obs.op = "get"
    /\ obs.before.present
    /\ Cardinality(DOMAIN obs.before.map) = 2
    /\ blob.present
    /\ Cardinality(DOMAIN blob.map) = 1

\* C25: an invocation without a content hash neither reads nor writes the
\* cache. Its start and each of its steps leave the storage item as it is
\* and make no call of the cache API, whatever the outcome; it is never
\* answered from the cache, and when it returns a value the model was
\* called for it
C25_NoHashNoCache ==
    /\ [][((call.pc \in {"idle", "done"} /\ call' # call /\ ~Truthy(call'.videoHash))
            \/ (call.pc \in {"reading", "analyzing"} /\ ~Truthy(call.videoHash))) =>
                /\ blob' = blob
                /\ obs' = obs
                /\ lastPut' = lastPut]_vars
    /\ []((call.pc = "done" /\ ~Truthy(call.videoHash)) =>
            /\ ~call.fromCache
            /\ call.status = "success" =>
                  /\ retry.calls >= 1
                  /\ retry.log[Len(retry.log)].kind = "return")

\* the cache holds an entry of the flash variant, not expired; an
\* invocation without a hash, for the flash variant, has got its list from
\* the model on the second attempt
C25_Witness ==
    /\ call.pc = "done"
    /\ call.status = "success"
    /\ ~Truthy(call.videoHash)
    /\ ~call.useProModel
    /\ call.value = SquatList
    /\ retry.calls = 2
    /\ blob.present
    /\ "ab_pro_flash" \in DOMAIN blob.map
    /\ now - blob.map["ab_pro_flash"].timestamp <= CACHE_EXPIRY_DAYS
    /\ blob.map["ab_pro_flash"].analysisResult = SquatList

(* Properties of the sessions of apiService, under SpecSession *)

C27_AuthFailures ==
    [][/\ (api'.op = "signup" /\ stores[api'.arg.email].present) =>
            /\ ~api'.ok
            /\ api'.error = "An account with this email already exists."
            /\ stores' = stores
            /\ session' = session
       /\ (api'.op = "login" /\ ~stores[api'.arg.email].present) =>
            /\ ~api'.ok
            /\ api'.error # ""
            /\ stores' = stores
            /\ session' = session]_vars

\* a signup with the email of an account that holds exercises and a plan
\* has failed while another user is logged in
C27_Witness ==
    /\ api.op = "signup"
    /\ ~api.ok
    /\ session \notin {NoSession, api.arg.email}
    /\ stores[api.arg.email].exercises # <<>>
    /\ stores[api.arg.email].savedPlans # <<>>

ApiWriters ==
    {"saveAllExercises", "deleteExercise", "savePlanEntry", "deleteSavedPlanEntry",
     "saveVideoFile", "restoreUserData"}

\* C28: without a session, saveAllExercises, deleteExercise, savePlanEntry,
\* deleteSavedPlanEntry, saveVideoFile and restoreUserData fail with an
\* error, store no video and leave the stored data of every user unchanged,
\* and getAllExercises and getAllSavedPlanEntries return empty lists.
C28_NoSession ==
    [][session = NoSession =>
        /\ api'.op \in ApiWriters =>
            /\ ~api'.ok
            /\ api'.error # ""
            /\ api'.videos = 0
            /\ stores' = stores
            /\ session' = NoSession
        /\ api'.op \in {"getAllExercises", "getAllSavedPlanEntries"} =>
            /\ api'.ok
            /\ api'.ret = <<>>
            /\ stores' = stores]_vars

\* without a session, a backup with an exercise, a plan and a video was
\* handed to restoreUserData while two users have stored exercises
C28_Witness ==
    /\ session = NoSession
    /\ api.op = "restoreUserData"
    /\ api.arg.exercises # <<>>
    /\ api.arg.videos > 0
    /\ ~api.ok
    /\ \A u \in Emails : stores[u].exercises # <<>>

(* Properties of the saved plans, under SpecPlans *)

\* C29: savePlanEntry is an upsert by id: when a stored plan has the id of
\* the entry, the list keeps its length, the entry takes the place of that
\* plan and the other plans are unchanged; otherwise the entry is appended.
\* After any sequence of savePlanEntry and deleteSavedPlanEntry from an
\* empty store no two saved plans share an id.
C29_UpsertById ==
    /\ [][(api'.op = "savePlanEntry" /\ api'.ok) =>
            LET entry == api'.arg.savedPlans[1]
                old == stores[session].savedPlans
                new == stores'[session].savedPlans
            IN  /\ session' = session
                /\ \A u \in Emails \ {session} : stores'[u] = stores[u]
                /\ stores'[session].exercises = stores[session].exercises
                /\ IF \E i \in DOMAIN old : old[i].id = entry.id
                   THEN /\ Len(new) = Len(old)
                        /\ \A i \in DOMAIN old :
                              new[i] = IF old[i].id = entry.id THEN entry ELSE old[i]
                   ELSE new = Append(old, entry)]_vars
    /\ [](\A u \in Emails :
            \A i, j \in DOMAIN stores[u].savedPlans :
                i # j => stores[u].savedPlans[i].id # stores[u].savedPlans[j].id)

\* a plan was saved and is the first of three stored plans: it replaced an
\* older version in place, an appended one would be the last
C29_Witness ==
    /\ api.op = "savePlanEntry"
    /\ api.ok
    /\ Len(stores[session].savedPlans) = 3
    /\ stores[session].savedPlans[1] = api.arg.savedPlans[1]

(* Properties of the interactive workout, under SpecWorkout *)

\* C30: during a workout over a day with at least one exercise, after any
\* sequence of Complete Set, Next, Previous, Skip Rest and ticks of the rest
\* timer, 0 <= currentExerciseIndex < number of exercises, currentSet >= 1
\* and restTimeLeft >= 0; and a rest that is started always ends: at a
\* countdown of 0 the next step ends it, Skip Rest ends it, and every rest
\* is followed by a state that is not resting.
C30_WorkoutBounds ==
    /\ [](workout.mounted =>
            /\ Len(workout.day) >= 1
            /\ 0 <= workout.currentExerciseIndex
            /\ workout.currentExerciseIndex < Len(workout.day)
            /\ workout.currentSet >= 1
            /\ workout.restTimeLeft >= 0)
    /\ [][(workout.isResting /\ workout.restTimeLeft = 0) => ~workout'.isResting]_vars
    /\ [][SkipRest => (~workout'.isResting /\ workout'.restTimeLeft = 0)]_vars
    /\ (workout.isResting ~> ~workout.isResting)

\* at the last of two exercises, after a set was completed, the countdown
\* of a rest of more than 0 seconds has reached 0 and the rest has not yet
\* been ended
C30_Witness ==
    /\ workout.mounted
    /\ workout.currentExerciseIndex > 0
    /\ workout.currentExerciseIndex = Len(workout.day) - 1
    /\ workout.currentSet > 1
    /\ workout.isResting
    /\ workout.restTimeLeft = 0
    /\ parseRestTime(workout.day[workout.currentExerciseIndex + 1].rest) > 0

====
